---- MODULE Spec2Model ----
(***************************************************************************)
(* A model of the Array exotic object of nova_vm                           *)
(* (nova_vm/src/ecmascript/builtins/array.rs): the element storage (value  *)
(* slice plus descriptor side table), the length / length-writable pair,   *)
(* the lazily created backing object, and the internal methods             *)
(* [[GetOwnProperty]], [[DefineOwnProperty]], [[Delete]],                  *)
(* [[OwnPropertyKeys]] and set-extensible.                                 *)
(*                                                                         *)
(* Option<T> is modelled as a sequence of length at most one:              *)
(* None == << >>, Some(x) == << x >>.  JavaScript values are strings       *)
(* ("undefined", "10", ...), function objects are strings ("f", "g").      *)
(***************************************************************************)
EXTENDS Integers, Sequences, FiniteSets, TLC

(***************************************************************************)
(* Bounds of the model.                                                    *)
(***************************************************************************)
\* The largest array index of the model: the scaled-down stand-in for
\* 2^32 - 2, the upper end of ARRAY_INDEX_RANGE.
MaxIndex == 3
\* The number of operations performed on the array in one behaviour.
MaxOps == 2

None == << >>
Some(x) == << x >>
unwrap_or(o, dflt) == IF o = None THEN dflt ELSE o[1]

(***************************************************************************)
(* Property keys.                                                          *)
(***************************************************************************)
IntKey(i) == [kind |-> "Integer", index |-> i, name |-> ""]
StrKey(s) == [kind |-> "String", index |-> 0, name |-> s]
SymKey(s) == [kind |-> "Symbol", index |-> 0, name |-> s]
LengthKey == StrKey("length")

ARRAY_INDEX_RANGE == 0..MaxIndex

\* Integer keys the model passes in: one below the index range, the whole
\* range, one above it.
IntegerKeys == {IntKey(i) : i \in (-1)..(MaxIndex + 1)}
IndexKeys == {IntKey(i) : i \in ARRAY_INDEX_RANGE}
NamedKeys == {StrKey("a")}
BackingKeys == {IntKey(-1), IntKey(MaxIndex + 1)} \cup NamedKeys
Keys == IntegerKeys \cup NamedKeys \cup {LengthKey}

(***************************************************************************)
(* Property descriptors: every field is an Option.                         *)
(***************************************************************************)
PD(v, w, g, s, e, c) ==
    [value |-> v, writable |-> w, get |-> g, set |-> s,
     enumerable |-> e, configurable |-> c]

is_accessor_descriptor(d) == d.get /= None \/ d.set /= None
is_data_descriptor(d) == d.value /= None \/ d.writable /= None
is_generic_descriptor(d) == ~is_accessor_descriptor(d) /\ ~is_data_descriptor(d)
has_fields(d) ==
    \/ d.value /= None \/ d.writable /= None \/ d.get /= None
    \/ d.set /= None \/ d.enumerable /= None \/ d.configurable /= None

(***************************************************************************)
(* Element descriptors (heap::element_array::ElementDescriptor): the       *)
(* attributes of a slot that is not a default writable, enumerable,        *)
(* configurable data property.  Absent attributes default to false.        *)
(***************************************************************************)
DataED(w, e, c) ==
    [accessor |-> FALSE, writable |-> w, enumerable |-> e, configurable |-> c,
     get |-> None, set |-> None]
AccessorED(g, s, e, c) ==
    [accessor |-> TRUE, writable |-> FALSE, enumerable |-> e, configurable |-> c,
     get |-> g, set |-> s]

WritableEnumerableConfigurableData == DataED(TRUE, TRUE, TRUE)

new_with_wec(w, e, c) ==
    IF w /\ e /\ c THEN None ELSE Some(DataED(w, e, c))

from_property_descriptor(d) ==
    LET c == unwrap_or(d.configurable, FALSE)
        e == unwrap_or(d.enumerable, FALSE)
        w == unwrap_or(d.writable, FALSE)
    IN  IF d.get = None /\ d.set = None
        THEN new_with_wec(w, e, c)
        ELSE Some(AccessorED(d.get, d.set, e, c))

to_property_descriptor(descriptor, value) ==
    LET ed == unwrap_or(descriptor, WritableEnumerableConfigurableData)
    IN  IF ed.accessor
        THEN PD(None, None, ed.get, ed.set, Some(ed.enumerable), Some(ed.configurable))
        ELSE PD(value, Some(ed.writable), None, None,
                Some(ed.enumerable), Some(ed.configurable))

ed_is_writable(ed) == IF ed.accessor THEN None ELSE Some(ed.writable)
ed_is_data_descriptor(ed) == ~ed.accessor
ed_is_accessor_descriptor(ed) == ed.accessor


(***************************************************************************)
(* Ordinary objects: a list of (key, property) pairs in insertion order,   *)
(* the [[Extensible]] flag and the [[Prototype]] (None for null, or the    *)
(* name of an object of the heap).  A stored property is a complete        *)
(* descriptor.                                                             *)
(***************************************************************************)
\* The realm's intrinsic %Array.prototype%.
array_prototype == "ArrayPrototype"

\* The backing object of an Array begins empty, extensible, with the
\* intrinsic prototype.
create_backing_object_data ==
    [extensible |-> TRUE, props |-> << >>, prototype |-> Some(array_prototype)]

PropIndex(o, key) ==
    LET hits == {n \in 1..Len(o.props) : o.props[n].key = key}
    IN  IF hits = {} THEN 0 ELSE CHOOSE n \in hits : TRUE

ordinary_get_own_property(o, key) ==
    IF PropIndex(o, key) = 0 THEN None ELSE Some(o.props[PropIndex(o, key)].desc)

\* ValidateAndApplyPropertyDescriptor (ECMA-262 10.1.6.3): the property after
\* the definition, or None when the definition is refused.
ValidateAndApplyPropertyDescriptor(extensible, current, d) ==
    LET mk_data == PD(Some(unwrap_or(d.value, "undefined")),
                      Some(unwrap_or(d.writable, FALSE)), None, None,
                      Some(unwrap_or(d.enumerable, FALSE)),
                      Some(unwrap_or(d.configurable, FALSE)))
        mk_acc  == PD(None, None, d.get, d.set,
                      Some(unwrap_or(d.enumerable, FALSE)),
                      Some(unwrap_or(d.configurable, FALSE)))
    IN
    IF current = None
    THEN IF ~extensible THEN None
         ELSE IF is_accessor_descriptor(d) THEN Some(mk_acc) ELSE Some(mk_data)
    ELSE
    LET cur == current[1]
        cur_acc == is_accessor_descriptor(cur) \/ cur.value = None
        e == IF d.enumerable = None THEN cur.enumerable ELSE d.enumerable
        c == IF d.configurable = None THEN cur.configurable ELSE d.configurable
        refused ==
            /\ cur.configurable = Some(FALSE)
            /\ \/ d.configurable = Some(TRUE)
               \/ d.enumerable /= None /\ d.enumerable /= cur.enumerable
               \/ ~is_generic_descriptor(d) /\ is_accessor_descriptor(d) /= cur_acc
               \/ cur_acc /\ d.get /= None /\ d.get /= cur.get
               \/ cur_acc /\ d.set /= None /\ d.set /= cur.set
               \/ ~cur_acc /\ cur.writable = Some(FALSE) /\ d.writable = Some(TRUE)
               \/ ~cur_acc /\ cur.writable = Some(FALSE)
                    /\ d.value /= None /\ d.value /= cur.value
    IN  IF ~has_fields(d) THEN current
        ELSE IF refused THEN None
        ELSE IF ~cur_acc /\ is_accessor_descriptor(d)
        THEN Some(PD(None, None, d.get, d.set, e, c))
        ELSE IF cur_acc /\ is_data_descriptor(d)
        THEN Some(PD(Some(unwrap_or(d.value, "undefined")),
                     Some(unwrap_or(d.writable, FALSE)), None, None, e, c))
        ELSE Some(PD(IF d.value = None THEN cur.value ELSE d.value,
                     IF d.writable = None THEN cur.writable ELSE d.writable,
                     IF d.get = None THEN cur.get ELSE d.get,
                     IF d.set = None THEN cur.set ELSE d.set, e, c))

\* The object after the definition, and whether it was accepted.
ordinary_define_own_property(o, key, d) ==
    LET n == PropIndex(o, key)
        new == ValidateAndApplyPropertyDescriptor(
                   o.extensible, ordinary_get_own_property(o, key), d)
    IN  IF new = None THEN [obj |-> o, ret |-> FALSE]
        ELSE IF n = 0
        THEN [obj |-> [o EXCEPT !.props = Append(@, [key |-> key, desc |-> new[1]])],
              ret |-> TRUE]
        ELSE [obj |-> [o EXCEPT !.props[n].desc = new[1]], ret |-> TRUE]

ordinary_delete(o, key) ==
    LET n == PropIndex(o, key)
    IN  IF n = 0 THEN [obj |-> o, ret |-> TRUE]
        ELSE IF o.props[n].desc.configurable = Some(FALSE)
        THEN [obj |-> o, ret |-> FALSE]
        ELSE [obj |-> [o EXCEPT !.props =
                         SubSeq(@, 1, n - 1) \o SubSeq(@, n + 1, Len(@))],
              ret |-> TRUE]

\* Own keys of an ordinary object: integer keys in ascending order, then
\* string keys in insertion order, then symbol keys in insertion order.
RECURSIVE SortedInts(_)
SortedInts(S) ==
    IF S = {} THEN << >>
    ELSE LET m == CHOOSE x \in S : \A y \in S : x <= y
         IN  << m >> \o SortedInts(S \ {m})

RECURSIVE SelectKeys(_, _)
SelectKeys(props, kind) ==
    IF props = << >> THEN << >>
    ELSE (IF Head(props).key.kind = kind THEN << Head(props).key >> ELSE << >>)
         \o SelectKeys(Tail(props), kind)

ordinary_own_property_keys(o) ==
    LET ints == {o.props[n].key.index :
                    n \in {m \in 1..Len(o.props) : o.props[m].key.kind = "Integer"}}
        sorted == SortedInts(ints)
    IN  [n \in 1..Len(sorted) |-> IntKey(sorted[n])]
            \o SelectKeys(o.props, "String") \o SelectKeys(o.props, "Symbol")

(***************************************************************************)
(* [[Get]] and calls of user functions.  The result of a [[Get]] is a      *)
(* record: tag "Ok" (internal_get), "Continue" or "Break" (try_get), the   *)
(* value, and the calls of user functions made on the way, each with its   *)
(* this value.  Numbers are values too: the number n is ToString(n).       *)
(***************************************************************************)
NumberValue(n) == ToString(n)

Ok(v) == [tag |-> "Ok", value |-> v, calls |-> << >>]
Continue(v) == [tag |-> "Continue", value |-> v, calls |-> << >>]
Break == [tag |-> "Break", value |-> "undefined", calls |-> << >>]

\* The user functions of the model: "h" returns its this value, every other
\* function returns "99".
call_function(f, this) ==
    [tag |-> "Ok", value |-> IF f = "h" THEN this ELSE "99",
     calls |-> << [callee |-> f, this |-> this] >>]

\* OrdinaryGet on the object o of the heap h, along its prototype chain.
RECURSIVE ordinary_internal_get(_, _, _, _)
ordinary_internal_get(h, o, key, receiver) ==
    LET desc == ordinary_get_own_property(o, key)
    IN  IF desc = None
        THEN IF o.prototype = None THEN Ok("undefined")
             ELSE ordinary_internal_get(h, h[o.prototype[1]], key, receiver)
        ELSE IF desc[1].value /= None THEN Ok(desc[1].value[1])
        ELSE IF desc[1].get = None THEN Ok("undefined")
        ELSE call_function(desc[1].get[1], receiver)

\* The same without user code: a getter that would have to be called is a
\* Break.
RECURSIVE ordinary_try_get(_, _, _, _)
ordinary_try_get(h, o, key, receiver) ==
    LET desc == ordinary_get_own_property(o, key)
    IN  IF desc = None
        THEN IF o.prototype = None THEN Continue("undefined")
             ELSE ordinary_try_get(h, h[o.prototype[1]], key, receiver)
        ELSE IF desc[1].value /= None THEN Continue(desc[1].value[1])
        ELSE IF desc[1].get = None THEN Continue("undefined")
        ELSE Break

(***************************************************************************)
(* The Array record (ArrayHeapData) together with its element storage:     *)
(*   len, len_writable   the SealableElementsVector fields;                *)
(*   values              the value slice, Option<Value> per slot;          *)
(*   descriptors         the side table, Option<ElementDescriptor> per     *)
(*                       slot (None: no entry);                            *)
(*   object_index        Option of the backing object.                     *)
(* The slice is modelled at its largest extent, so that what reserve lays  *)
(* out beyond len is part of the state.                                    *)
(***************************************************************************)
Slots == 0..MaxIndex

Res(a, r) == [arr |-> a, ret |-> r, panic |-> FALSE]
Panic(a) == [arr |-> a, ret |-> FALSE, panic |-> TRUE]

\* CreateArrayFromList: default data properties, no backing object.
from_slice(list) ==
    [len |-> Len(list), len_writable |-> TRUE,
     values |-> [i \in Slots |-> IF i < Len(list) THEN Some(list[i + 1]) ELSE None],
     descriptors |-> [i \in Slots |-> None],
     object_index |-> None]

get_backing_object(a) == a.object_index

is_hole(a, i) == a.values[i] = None /\ a.descriptors[i] = None


\* SealableElementsVector::writable: the vector accepts new elements.
writable(a) == a.len_writable

\* The backing object, created on demand.
backing_or_create(a) ==
    IF get_backing_object(a) = None THEN create_backing_object_data
    ELSE a.object_index[1]

\* define_on_backing that gives up when there is no backing object yet.
define_on_backing_without_create(a, key, d) ==
    IF get_backing_object(a) = None THEN Res(a, TRUE)
    ELSE LET r == ordinary_define_own_property(a.object_index[1], key, d)
         IN  Res([a EXCEPT !.object_index = Some(r.obj)], r.ret)

\* Forwarding a definition to the backing object.
define_on_backing(a, key, d) ==
    LET r == ordinary_define_own_property(backing_or_create(a), key, d)
    IN  Res([a EXCEPT !.object_index = Some(r.obj)], r.ret)

(***************************************************************************)
(* [[GetOwnProperty]]                                                      *)
(***************************************************************************)
\* The element slice of the array has len elements: get(index) is None
\* outside it, and unwrapping that None is a panic.
IndexOutOfBounds == << "panic: index out of bounds" >>

slice_get(a, index) ==
    IF index < a.len THEN Some(a.values[index]) ELSE None

\* The own property of the slot at index: absent for a hole.
own_element_property(a, index) ==
    LET value == slice_get(a, index)
        descriptor == a.descriptors[index]
    IN  IF value = None THEN IndexOutOfBounds
        ELSE IF value[1] = None /\ descriptor = None THEN None
        ELSE Some(to_property_descriptor(descriptor, value[1]))

\* length_descriptor reporting a length that is always writable.
length_descriptor_always_writable(a) ==
    PD(Some(a.len), Some(TRUE), None, None, Some(FALSE), Some(FALSE))

\* The own property "length": a data property of the element vector's len
\* and len_writable, neither enumerable nor configurable.
length_descriptor(a) ==
    PD(Some(a.len), Some(a.len_writable), None, None, Some(FALSE), Some(FALSE))

\* try_get_own_property without the test of index against the length.
try_get_own_property_unchecked(a, key) ==
    IF key.kind = "Integer"
    THEN IF key.index \notin ARRAY_INDEX_RANGE
         THEN IF get_backing_object(a) /= None
              THEN ordinary_get_own_property(a.object_index[1], key)
              ELSE None
         ELSE own_element_property(a, key.index)
    ELSE IF key = LengthKey
    THEN Some(length_descriptor(a))
    ELSE IF a.object_index /= None
    THEN ordinary_get_own_property(a.object_index[1], key)
    ELSE None

try_get_own_property(a, key) ==
    IF key.kind = "Integer"
    THEN IF key.index \notin ARRAY_INDEX_RANGE
         THEN IF get_backing_object(a) /= None
              THEN ordinary_get_own_property(a.object_index[1], key)
              ELSE None
         ELSE IF key.index >= a.len THEN None
         ELSE own_element_property(a, key.index)
    ELSE IF key = LengthKey
    THEN Some(length_descriptor(a))
    ELSE IF a.object_index /= None
    THEN ordinary_get_own_property(a.object_index[1], key)
    ELSE None

(***************************************************************************)
(* [[Get]]: try_get (no user code) and internal_get.                       *)
(***************************************************************************)
\* The [[Prototype]] of the Array: the one of the backing object, and the
\* intrinsic %Array.prototype% while there is no backing object.
internal_prototype(a) ==
    IF get_backing_object(a) = None THEN Some(array_prototype)
    ELSE a.object_index[1].prototype

\* The getter of the slot's entry in the side table, if any.
getter_function(a, index) ==
    IF a.descriptors[index] = None THEN None ELSE a.descriptors[index][1].get

try_get_backing(h, a, key, receiver) ==
    IF get_backing_object(a) /= None
    THEN ordinary_try_get(h, a.object_index[1], key, receiver)
    ELSE ordinary_try_get(h, h[internal_prototype(a)[1]], key, receiver)

internal_get_backing(h, a, key, receiver) ==
    IF get_backing_object(a) /= None
    THEN ordinary_internal_get(h, a.object_index[1], key, receiver)
    ELSE ordinary_internal_get(h, h[internal_prototype(a)[1]], key, receiver)

\* The lookup in the prototype, undefined when the prototype is null.
prototype_try_get(h, a, key, receiver) ==
    IF internal_prototype(a) /= None
    THEN ordinary_try_get(h, h[internal_prototype(a)[1]], key, receiver)
    ELSE Continue("undefined")

prototype_internal_get(h, a, key, receiver) ==
    IF internal_prototype(a) /= None
    THEN ordinary_internal_get(h, h[internal_prototype(a)[1]], key, receiver)
    ELSE Ok("undefined")

\* element_try_get answering undefined where a getter would have to run.
element_try_get_without_break(h, a, index, receiver) ==
    IF a.values[index] /= None THEN Continue(a.values[index][1])
    ELSE IF getter_function(a, index) /= None THEN Continue("undefined")
    ELSE prototype_try_get(h, a, IntKey(index), receiver)

\* try_get on an index below the length.
element_try_get(h, a, index, receiver) ==
    IF a.values[index] /= None THEN Continue(a.values[index][1])
    ELSE IF getter_function(a, index) /= None THEN Break
    ELSE prototype_try_get(h, a, IntKey(index), receiver)

\* element_internal_get calling the getter with the Array as this.
element_internal_get_on_array(h, a, index, receiver) ==
    IF a.values[index] /= None THEN Ok(a.values[index][1])
    ELSE IF getter_function(a, index) /= None
    THEN call_function(getter_function(a, index)[1], "A")
    ELSE prototype_internal_get(h, a, IntKey(index), receiver)

\* internal_get on an index below the length.
element_internal_get(h, a, index, receiver) ==
    IF a.values[index] /= None THEN Ok(a.values[index][1])
    ELSE IF getter_function(a, index) /= None
    THEN call_function(getter_function(a, index)[1], receiver)
    ELSE prototype_internal_get(h, a, IntKey(index), receiver)

try_get(h, a, key, receiver) ==
    IF key = LengthKey THEN Continue(NumberValue(a.len))
    ELSE IF key.kind = "Integer"
    THEN IF key.index \notin ARRAY_INDEX_RANGE
         THEN try_get_backing(h, a, key, receiver)
         ELSE IF key.index >= a.len
         THEN prototype_try_get(h, a, key, receiver)
         ELSE element_try_get(h, a, key.index, receiver)
    ELSE try_get_backing(h, a, key, receiver)

internal_get(h, a, key, receiver) ==
    IF key = LengthKey THEN Ok(NumberValue(a.len))
    ELSE IF key.kind = "Integer"
    THEN IF key.index \notin ARRAY_INDEX_RANGE
         THEN internal_get_backing(h, a, key, receiver)
         ELSE IF key.index >= a.len
         THEN prototype_internal_get(h, a, key, receiver)
         ELSE element_internal_get(h, a, key.index, receiver)
    ELSE internal_get_backing(h, a, key, receiver)

\* internal_set_prototype: a prototype other than the intrinsic one needs the
\* backing object.
internal_set_prototype(a, prototype) ==
    IF get_backing_object(a) /= None
    THEN [a EXCEPT !.object_index[1].prototype = prototype]
    ELSE IF prototype = Some(array_prototype) THEN a
    ELSE [a EXCEPT !.object_index =
             Some([create_backing_object_data EXCEPT !.prototype = prototype])]

(***************************************************************************)
(* OrdinaryDefineOwnProperty on an element slot below len                  *)
(* (ordinary_define_own_property_for_array), step by step.                 *)
(***************************************************************************)
\* The descriptor the slot is validated against: a value without an entry in
\* the side table is a default data property.
current_descriptor_of(a, index) ==
    IF a.values[index] /= None /\ a.descriptors[index] = None
    THEN Some(WritableEnumerableConfigurableData)
    ELSE a.descriptors[index]

\* 2. current is undefined (the slot is a hole): create the property.
define_on_hole(a, index, descriptor) ==
    IF ~writable(a) THEN Res(a, FALSE)
    ELSE IF is_accessor_descriptor(descriptor)
    THEN Res([a EXCEPT !.descriptors[index] =
                           from_property_descriptor(descriptor)], TRUE)
    ELSE Res([a EXCEPT
                !.values[index] = Some(unwrap_or(descriptor.value, "undefined")),
                !.descriptors[index] =
                    IF from_property_descriptor(descriptor) = None THEN @
                    ELSE from_property_descriptor(descriptor)], TRUE)

\* The validation that lets a non-configurable slot change its enumerable.
validate_non_configurable_ignoring_enumerable(cd, current_value, descriptor) ==
    IF descriptor.configurable = Some(TRUE) THEN "false"
    ELSE IF ~is_generic_descriptor(descriptor)
            /\ is_accessor_descriptor(descriptor) /= ed_is_accessor_descriptor(cd)
    THEN "false"
    ELSE "pass"

\* 5. current.[[Configurable]] is false: "false" (refused), "panic" (unwrap of
\* an absent current value) or "pass".
validate_non_configurable(cd, current_value, descriptor) ==
    IF descriptor.configurable = Some(TRUE) THEN "false"
    ELSE IF descriptor.enumerable /= None /\ descriptor.enumerable[1] /= cd.enumerable
    THEN "false"
    ELSE IF ~is_generic_descriptor(descriptor)
            /\ is_accessor_descriptor(descriptor) /= ed_is_accessor_descriptor(cd)
    THEN "false"
    ELSE IF ed_is_accessor_descriptor(cd)
    THEN IF descriptor.get /= None /\ cd.get /= descriptor.get THEN "false"
         ELSE IF descriptor.set /= None /\ cd.set /= descriptor.set THEN "false"
         ELSE "pass"
    ELSE IF ~ed_is_writable(cd)[1]
    THEN IF descriptor.writable = Some(TRUE) THEN "false"
         ELSE IF descriptor.value /= None
         THEN IF current_value = None THEN "panic"
              ELSE IF descriptor.value /= current_value THEN "false"
              ELSE "pass"
         ELSE "pass"
    ELSE "pass"

\* replace_data_by_accessor leaving the old value in the value slice.
replace_data_by_accessor_keeping_value(a, index, descriptor, cd) ==
    [a EXCEPT
       !.descriptors[index] =
           Some(AccessorED(descriptor.get, descriptor.set,
                           unwrap_or(descriptor.enumerable, cd.enumerable),
                           unwrap_or(descriptor.configurable, cd.configurable)))]

\* 6.a. a data property is replaced by an accessor property.
replace_data_by_accessor(a, index, descriptor, cd) ==
    [a EXCEPT
       !.values[index] = None,
       !.descriptors[index] =
           Some(AccessorED(descriptor.get, descriptor.set,
                           unwrap_or(descriptor.enumerable, cd.enumerable),
                           unwrap_or(descriptor.configurable, cd.configurable)))]

\* 6.b. an accessor property is replaced by a data property.
replace_accessor_by_data(a, index, descriptor, cd) ==
    [a EXCEPT
       !.descriptors[index] =
           new_with_wec(unwrap_or(descriptor.writable, FALSE),
                        unwrap_or(descriptor.enumerable, cd.enumerable),
                        unwrap_or(descriptor.configurable, cd.configurable)),
       !.values[index] = Some(unwrap_or(descriptor.value, "undefined"))]

\* set_descriptor_fields preferring the current value to the one of Desc.
set_descriptor_fields_keeping_value(a, index, descriptor, cd) ==
    [a EXCEPT
       !.values[index] =
           IF a.values[index] /= None THEN a.values[index] ELSE descriptor.value,
       !.descriptors[index] =
           from_property_descriptor(
               PD(None,
                  IF descriptor.writable /= None THEN descriptor.writable
                  ELSE ed_is_writable(cd),
                  IF descriptor.get /= None THEN descriptor.get ELSE cd.get,
                  IF descriptor.set /= None THEN descriptor.set ELSE cd.set,
                  Some(unwrap_or(descriptor.enumerable, cd.enumerable)),
                  Some(unwrap_or(descriptor.configurable, cd.configurable))))]

\* 6.c. every field of Desc is set on the property.
set_descriptor_fields(a, index, descriptor, cd) ==
    [a EXCEPT
       !.values[index] =
           IF descriptor.value /= None THEN descriptor.value ELSE a.values[index],
       !.descriptors[index] =
           from_property_descriptor(
               PD(None,
                  IF descriptor.writable /= None THEN descriptor.writable
                  ELSE ed_is_writable(cd),
                  IF descriptor.get /= None THEN descriptor.get ELSE cd.get,
                  IF descriptor.set /= None THEN descriptor.set ELSE cd.set,
                  Some(unwrap_or(descriptor.enumerable, cd.enumerable)),
                  Some(unwrap_or(descriptor.configurable, cd.configurable))))]

ordinary_define_own_property_for_array(a, index, descriptor) ==
    LET current_value == a.values[index]
        current_descriptor == current_descriptor_of(a, index)
        cd == current_descriptor[1]
        check == IF ~cd.configurable
                 THEN validate_non_configurable(cd, current_value, descriptor)
                 ELSE "pass"
    IN
    IF current_descriptor = None /\ current_value = None
    THEN define_on_hole(a, index, descriptor)
    ELSE IF ~has_fields(descriptor) THEN Res(a, TRUE)
    ELSE IF check = "false" THEN Res(a, FALSE)
    ELSE IF check = "panic" THEN Panic(a)
    ELSE IF ed_is_data_descriptor(cd) /\ is_accessor_descriptor(descriptor)
    THEN Res(replace_data_by_accessor(a, index, descriptor, cd), TRUE)
    ELSE IF ed_is_accessor_descriptor(cd) /\ is_data_descriptor(descriptor)
    THEN Res(replace_accessor_by_data(a, index, descriptor, cd), TRUE)
    ELSE Res(set_descriptor_fields(a, index, descriptor, cd), TRUE)

(***************************************************************************)
(* SealableElementsVector::push: the value and the descriptor go to the    *)
(* slot at len, and len grows by one.                                      *)
(***************************************************************************)
push(a, value, descriptor) ==
    [a EXCEPT !.values[a.len] = value,
              !.descriptors[a.len] = IF descriptor = None THEN @ ELSE descriptor,
              !.len = a.len + 1]

(***************************************************************************)
(* [[Delete]]                                                              *)
(***************************************************************************)
delete_on_backing(a, key) ==
    IF get_backing_object(a) = None THEN Res(a, TRUE)
    ELSE LET r == ordinary_delete(a.object_index[1], key)
         IN  Res([a EXCEPT !.object_index = Some(r.obj)], r.ret)

\* try_delete leaving the entry of the side table in place.
try_delete_keeping_descriptor(a, key) ==
    IF key = LengthKey THEN Res(a, TRUE)
    ELSE IF key.kind = "Integer"
    THEN IF key.index \notin ARRAY_INDEX_RANGE THEN delete_on_backing(a, key)
         ELSE IF key.index >= a.len THEN Res(a, TRUE)
         ELSE IF a.descriptors[key.index] /= None
                 /\ ~a.descriptors[key.index][1].configurable
         THEN Res(a, FALSE)
         ELSE Res([a EXCEPT !.values[key.index] = None], TRUE)
    ELSE delete_on_backing(a, key)

\* try_delete leaving the value in the slice.
try_delete_keeping_value(a, key) ==
    IF key = LengthKey THEN Res(a, TRUE)
    ELSE IF key.kind = "Integer"
    THEN IF key.index \notin ARRAY_INDEX_RANGE THEN delete_on_backing(a, key)
         ELSE IF key.index >= a.len THEN Res(a, TRUE)
         ELSE IF a.descriptors[key.index] /= None
                 /\ ~a.descriptors[key.index][1].configurable
         THEN Res(a, FALSE)
         ELSE Res([a EXCEPT !.descriptors[key.index] = None], TRUE)
    ELSE delete_on_backing(a, key)

\* try_delete without the test of the configurable attribute.
try_delete_ignoring_configurable(a, key) ==
    IF key = LengthKey THEN Res(a, TRUE)
    ELSE IF key.kind = "Integer"
    THEN IF key.index \notin ARRAY_INDEX_RANGE THEN delete_on_backing(a, key)
         ELSE IF key.index >= a.len THEN Res(a, TRUE)
         ELSE Res([a EXCEPT !.descriptors[key.index] = None,
                            !.values[key.index] = None], TRUE)
    ELSE delete_on_backing(a, key)

try_delete(a, key) ==
    IF key = LengthKey THEN Res(a, TRUE)
    ELSE IF key.kind = "Integer"
    THEN IF key.index \notin ARRAY_INDEX_RANGE THEN delete_on_backing(a, key)
         ELSE IF key.index >= a.len THEN Res(a, TRUE)
         ELSE IF a.descriptors[key.index] /= None
                 /\ ~a.descriptors[key.index][1].configurable
         THEN Res(a, FALSE)
         ELSE Res([a EXCEPT !.descriptors[key.index] = None,
                            !.values[key.index] = None], TRUE)
    ELSE delete_on_backing(a, key)


(***************************************************************************)
(* ArraySetLength (array::abstract_operations::array_try_set_length).      *)
(* Shrinking deletes the indices from len - 1 downward and stops at the    *)
(* first one that cannot be deleted.                                       *)
(***************************************************************************)
RECURSIVE shrink_to(_, _)
shrink_to(a, new_len) ==
    IF a.len <= new_len THEN [arr |-> a, ok |-> TRUE]
    ELSE LET r == try_delete(a, IntKey(a.len - 1))
         IN  IF r.ret THEN shrink_to([r.arr EXCEPT !.len = a.len - 1], new_len)
             ELSE [arr |-> a, ok |-> FALSE]

array_try_set_length(a, desc) ==
    LET refused_attrs ==
            \/ desc.configurable = Some(TRUE)
            \/ desc.enumerable = Some(TRUE)
            \/ is_accessor_descriptor(desc)
        new_writable == IF desc.writable = Some(FALSE) THEN FALSE
                        ELSE a.len_writable
    IN
    IF ~has_fields(desc) THEN Res(a, TRUE)
    ELSE IF refused_attrs THEN Res(a, FALSE)
    ELSE IF desc.value = None
    THEN IF ~a.len_writable /\ desc.writable = Some(TRUE) THEN Res(a, FALSE)
         ELSE Res([a EXCEPT !.len_writable = new_writable], TRUE)
    ELSE
    LET new_len == desc.value[1]
    IN  IF ~a.len_writable
        THEN Res(a, new_len = a.len /\ desc.writable /= Some(TRUE))
        ELSE IF new_len >= a.len
        THEN Res([a EXCEPT !.len = new_len, !.len_writable = new_writable], TRUE)
        ELSE LET r == shrink_to(a, new_len)
             IN  Res([r.arr EXCEPT !.len_writable = new_writable], r.ok)

(***************************************************************************)
(* [[DefineOwnProperty]]                                                   *)
(***************************************************************************)
\* define_beyond_length without step g: the length grows although it is not
\* writable.
define_beyond_length_ignoring_writable(a, index, d) ==
    Res(push(IF index > a.len THEN [a EXCEPT !.len = index] ELSE a,
             d.value, from_property_descriptor(d)), TRUE)

\* define_beyond_length without the jump of len to index: the element is
\* pushed right after the last one.
define_beyond_length_without_gap(a, index, d) ==
    IF ~a.len_writable THEN Res(a, FALSE)
    ELSE Res(push(a, d.value, from_property_descriptor(d)), TRUE)

\* index >= length: refused when the length is not writable; otherwise the
\* vector grows to index and the new element is pushed.
define_beyond_length(a, index, d) ==
    IF ~a.len_writable THEN Res(a, FALSE)
    ELSE Res(push(IF index > a.len THEN [a EXCEPT !.len = index] ELSE a,
                  d.value, from_property_descriptor(d)), TRUE)

try_define_own_property(a, key, d) ==
    IF key = LengthKey THEN array_try_set_length(a, d)
    ELSE IF key.kind = "Integer"
    THEN IF key.index \notin ARRAY_INDEX_RANGE THEN define_on_backing(a, key, d)
         ELSE IF key.index >= a.len
         THEN define_beyond_length(a, key.index, d)
         ELSE ordinary_define_own_property_for_array(a, key.index, d)
    ELSE define_on_backing(a, key, d)

(***************************************************************************)
(* [[OwnPropertyKeys]]                                                     *)
(***************************************************************************)
RECURSIVE element_keys(_, _)
element_keys(a, from) ==
    IF from >= a.len THEN << >>
    ELSE (IF a.values[from] /= None THEN << IntKey(from) >> ELSE << >>)
         \o element_keys(a, from + 1)

try_own_property_keys(a) ==
    LET backing_keys ==
            IF get_backing_object(a) /= None
            THEN ordinary_own_property_keys(a.object_index[1])
            ELSE << >>
    IN  element_keys(a, 0) \o backing_keys

(***************************************************************************)
(* InternalSlots::internal_set_extensible                                  *)
(***************************************************************************)
internal_set_extensible(a, value) ==
    LET a1 == [a EXCEPT !.len_writable = value]
    IN  IF get_backing_object(a1) /= None
        THEN [a1 EXCEPT !.object_index[1].extensible = value]
        ELSE IF ~value
        THEN [a1 EXCEPT !.object_index =
                 Some([create_backing_object_data EXCEPT !.extensible = value])]
        ELSE a1


(***************************************************************************)
(* VmIterator::ArrayValues (engine/bytecode/iterator.rs).  The record      *)
(* holds the array and the index; the model adds what the claims about     *)
(* a whole iteration need: the log of the results, the array as it was at  *)
(* the first step, and whether it was the same at every step.              *)
(***************************************************************************)
StepSome(v) == [tag |-> "Some", value |-> v]
StepNone == [tag |-> "None", value |-> "undefined"]

ArrayValuesIterator_new(a) ==
    [index |-> 0, log |-> << >>, origin |-> a, intact |-> TRUE]

\* The step writes the result to the log.
Logged(it, a, index, result) ==
    [index |-> index, log |-> Append(it.log, result),
     origin |-> IF it.log = << >> THEN a ELSE it.origin,
     intact |-> it.intact /\ (it.log = << >> \/ a = it.origin)]

\* next that never advances the index.
ArrayValuesIterator_next_without_advance(h, a, it) ==
    IF it.index >= a.len THEN Logged(it, a, it.index, StepNone)
    ELSE IF a.values[it.index] /= None
    THEN Logged(it, a, it.index, StepSome(a.values[it.index][1]))
    ELSE Logged(it, a, it.index,
                StepSome(internal_get(h, a, IntKey(it.index), "A").value))

\* next that stops at the length the array had at the first step.
ArrayValuesIterator_next_with_cached_length(h, a, it) ==
    IF it.index >= (IF it.log = << >> THEN a.len ELSE it.origin.len)
    THEN Logged(it, a, it.index, StepNone)
    ELSE IF it.index < a.len /\ a.values[it.index] /= None
    THEN Logged(it, a, it.index + 1, StepSome(a.values[it.index][1]))
    ELSE Logged(it, a, it.index + 1,
                StepSome(internal_get(h, a, IntKey(it.index), "A").value))

\* next with the fast path only: a slot without a value yields undefined.
ArrayValuesIterator_next_fast_path_only(h, a, it) ==
    IF it.index >= a.len THEN Logged(it, a, it.index, StepNone)
    ELSE IF a.values[it.index] /= None
    THEN Logged(it, a, it.index + 1, StepSome(a.values[it.index][1]))
    ELSE Logged(it, a, it.index + 1, StepSome("undefined"))

\* ArrayValuesIterator::next: the length is read at every step; the index
\* advances before the element is read; a slot with a value is yielded as it
\* is, any other goes through [[Get]] with the array as receiver.
ArrayValuesIterator_next(h, a, it) ==
    IF it.index >= a.len THEN Logged(it, a, it.index, StepNone)
    ELSE IF a.values[it.index] /= None
    THEN Logged(it, a, it.index + 1, StepSome(a.values[it.index][1]))
    ELSE Logged(it, a, it.index + 1,
                StepSome(internal_get(h, a, IntKey(it.index), "A").value))

(***************************************************************************)
(* VmIterator::ObjectProperties (for-in).  An object is the Array, named   *)
(* "A", or an ordinary object of the heap, named by its name.  The record  *)
(* holds the object being visited, whether its keys have been fetched, the *)
(* keys visited so far and the keys that remain; the model adds the log of *)
(* the keys yielded, the objects as they were at the first step, and       *)
(* whether they were the same at every step.                               *)
(***************************************************************************)
internal_own_property_keys(h, a, object) ==
    IF object = "A" THEN try_own_property_keys(a)
    ELSE ordinary_own_property_keys(h[object])

internal_get_own_property(h, a, object, key) ==
    IF object = "A" THEN try_get_own_property(a, key)
    ELSE ordinary_get_own_property(h[object], key)

internal_get_prototype_of(h, a, object) ==
    IF object = "A" THEN internal_prototype(a) ELSE h[object].prototype

ObjectPropertiesIterator_new(object) ==
    [object |-> object, object_was_visited |-> FALSE, visited_keys |-> << >>,
     remaining_keys |-> << >>, start |-> object, log |-> << >>, origin |-> << >>,
     intact |-> TRUE]

Contains(seq, x) == \E n \in 1..Len(seq) : seq[n] = x

\* The keys of an own-keys list that are not symbols.
RECURSIVE WithoutSymbols(_)
WithoutSymbols(keys) ==
    IF keys = << >> THEN << >>
    ELSE (IF Head(keys).kind = "Symbol" THEN << >> ELSE << Head(keys) >>)
         \o WithoutSymbols(Tail(keys))

\* The first part of the loop body: the keys of the object are fetched once.
fetch_keys(h, a, it) ==
    IF it.object_was_visited THEN it
    ELSE [it EXCEPT
            !.remaining_keys =
                @ \o WithoutSymbols(internal_own_property_keys(h, a, it.object)),
            !.object_was_visited = TRUE]

\* pop_remaining_keys that yields a key whether or not it was visited.
RECURSIVE pop_remaining_keys_without_visited(_, _, _)
pop_remaining_keys_without_visited(h, a, it) ==
    IF it.remaining_keys = << >> THEN [it |-> it, result |-> None]
    ELSE LET r == Head(it.remaining_keys)
             rest == [it EXCEPT !.remaining_keys = Tail(@)]
             desc == internal_get_own_property(h, a, it.object, r)
         IN  IF desc = None THEN pop_remaining_keys_without_visited(h, a, rest)
             ELSE IF desc[1].enumerable = Some(TRUE)
             THEN [it |-> [rest EXCEPT !.visited_keys = Append(@, r)],
                   result |-> Some(r)]
             ELSE pop_remaining_keys_without_visited(
                      h, a, [rest EXCEPT !.visited_keys = Append(@, r)])

\* The while loop: keys are popped until one is to be yielded; a key with an
\* own property joins the visited keys whether or not it is enumerable.
RECURSIVE pop_remaining_keys(_, _, _)
pop_remaining_keys(h, a, it) ==
    IF it.remaining_keys = << >> THEN [it |-> it, result |-> None]
    ELSE LET r == Head(it.remaining_keys)
             rest == [it EXCEPT !.remaining_keys = Tail(@)]
             desc == internal_get_own_property(h, a, it.object, r)
         IN  IF Contains(it.visited_keys, r) THEN pop_remaining_keys(h, a, rest)
             ELSE IF desc = None THEN pop_remaining_keys(h, a, rest)
             ELSE IF desc[1].enumerable = Some(TRUE)
             THEN [it |-> [rest EXCEPT !.visited_keys = Append(@, r)],
                   result |-> Some(r)]
             ELSE pop_remaining_keys(
                      h, a, [rest EXCEPT !.visited_keys = Append(@, r)])

\* ObjectPropertiesIterator::next: the outer loop ascends the prototype
\* chain until a key is yielded or the chain ends.
RECURSIVE ObjectPropertiesIterator_next(_, _, _)
ObjectPropertiesIterator_next(h, a, it) ==
    LET popped == pop_remaining_keys(h, a, fetch_keys(h, a, it))
        prototype == internal_get_prototype_of(h, a, popped.it.object)
    IN  IF popped.result /= None THEN popped
        ELSE IF prototype /= None
        THEN ObjectPropertiesIterator_next(
                 h, a, [popped.it EXCEPT !.object_was_visited = FALSE,
                                         !.object = prototype[1]])
        ELSE [it |-> popped.it, result |-> None]

(***************************************************************************)
(* VmIterator::GenericIterator: the iterator object and its next method.   *)
(* What the user's next method does at a call is an input of the step: it  *)
(* throws, or it returns a value; the value is an object or not; reading   *)
(* "done" or "value" of the object throws or gives a value.  The step      *)
(* reports the calls and the reads it made, in order, and its outcome.     *)
(***************************************************************************)
GenericIterator(iterator, next_method) ==
    [iterator |-> iterator, next_method |-> next_method, steps |-> 0]

\* ToBoolean on the values of the model.
to_boolean(v) == v \notin {"undefined", "null", "false", "0", "NaN", ""}

CallEvent(f, this) == [op |-> "call", target |-> f, arg |-> this]
GetEvent(object, key) == [op |-> "get", target |-> object, arg |-> key]

Outcome(tag, v, events) == [tag |-> tag, value |-> v, events |-> events]

\* step_value that reads "value" before "done", and whatever "done" is.
step_value_generic_reading_value_first(rec, behaviour) ==
    LET called == << CallEvent(rec.next_method, rec.iterator) >>
        read_value == called \o << GetEvent("result", "value") >>
        read_done == read_value \o << GetEvent("result", "done") >>
    IN  IF behaviour.throws THEN Outcome("Throw", "error", called)
        ELSE IF ~behaviour.is_object THEN Outcome("Throw", "TypeError", called)
        ELSE IF behaviour.value.throws THEN Outcome("Throw", "error", read_value)
        ELSE IF behaviour.done.throws THEN Outcome("Throw", "error", read_done)
        ELSE IF to_boolean(behaviour.done.value)
        THEN Outcome("None", "undefined", read_done)
        ELSE Outcome("Some", behaviour.value.value, read_done)

\* VmIterator::step_value on a GenericIterator.
step_value_generic(rec, behaviour) ==
    LET called == << CallEvent(rec.next_method, rec.iterator) >>
        read_done == called \o << GetEvent("result", "done") >>
        read_value == read_done \o << GetEvent("result", "value") >>
    IN  IF behaviour.throws THEN Outcome("Throw", "error", called)
        ELSE IF ~behaviour.is_object THEN Outcome("Throw", "TypeError", called)
        ELSE IF behaviour.done.throws THEN Outcome("Throw", "error", read_done)
        ELSE IF to_boolean(behaviour.done.value)
        THEN Outcome("None", "undefined", read_done)
        ELSE IF behaviour.value.throws THEN Outcome("Throw", "error", read_value)
        ELSE Outcome("Some", behaviour.value.value, read_value)

(***************************************************************************)
(* VmIterator::from_value (GetIterator, sync).  The record is its variant  *)
(* and the number of steps taken on it; the payload of ArrayValues and of  *)
(* GenericIterator is the record of that iterator.  What the lookup of     *)
(* @@iterator finds, and what the call of the method and the read of       *)
(* "next" do, are inputs.                                                  *)
(***************************************************************************)
VmIterator(kind) == [kind |-> kind, steps |-> 0]

array_prototype_values == "values"

is_callable(v) == v \in {"values", "next", "f", "m"}

\* The record from_value returns, or what it throws.
Produced(kind, iterator, next_method, events) ==
    [tag |-> "Ok", value |-> kind, iterator |-> iterator,
     next_method |-> next_method, events |-> events]

Thrown(error, events) ==
    [tag |-> "Throw", value |-> error, iterator |-> "undefined",
     next_method |-> "undefined", events |-> events]

\* GetMethod(value, @@iterator): undefined and null give no method, and
\* another value that is not callable is a TypeError.
get_method(lookup) ==
    IF lookup.throws THEN [tag |-> "Throw", value |-> "error"]
    ELSE IF lookup.value \in {"undefined", "null"} THEN [tag |-> "Ok", value |-> None]
    ELSE IF ~is_callable(lookup.value) THEN [tag |-> "Throw", value |-> "TypeError"]
    ELSE [tag |-> "Ok", value |-> Some(lookup.value)]

\* GetIteratorFromMethod(value, method): the method is called with the value
\* as this; its result must be an object; a result whose next is not
\* callable gives no iterator record.
get_iterator_from_method(value, method, behaviour) ==
    LET called == << CallEvent(method, value) >>
        read_next == called \o << GetEvent("it", "next") >>
    IN  IF behaviour.throws THEN Thrown("error", called)
        ELSE IF ~behaviour.is_object THEN Thrown("TypeError", called)
        ELSE IF behaviour.next.throws THEN Thrown("error", read_next)
        ELSE IF is_callable(behaviour.next.value)
        THEN Produced("GenericIterator", "it", behaviour.next.value, read_next)
        ELSE Produced("InvalidIterator", "undefined", "undefined", read_next)

\* from_value that takes the ArrayValues path for every Array.
from_value_for_every_array(value, lookup, behaviour) ==
    LET method == get_method(lookup)
    IN  IF method.tag = "Throw" THEN Thrown(method.value, << >>)
        ELSE IF method.value = None
        THEN Thrown("TypeError", << >>)
        ELSE IF value = "A"
        THEN Produced("ArrayValues", "undefined", "undefined", << >>)
        ELSE get_iterator_from_method(value, method.value[1], behaviour)

\* VmIterator::from_value; the value "A" is the Array.
from_value(value, lookup, behaviour) ==
    LET method == get_method(lookup)
    IN  IF method.tag = "Throw" THEN Thrown(method.value, << >>)
        ELSE IF method.value = None
        THEN Thrown("TypeError", << >>)
        ELSE IF value = "A" /\ method.value[1] = array_prototype_values
        THEN Produced("ArrayValues", "undefined", "undefined", << >>)
        ELSE get_iterator_from_method(value, method.value[1], behaviour)

\* step_value on an InvalidIterator that reports exhaustion.
step_value_invalid_returning_none(rec) == Outcome("None", "undefined", << >>)

\* VmIterator::step_value, InvalidIterator arm: throw_not_callable.
step_value_invalid(rec) == Outcome("Throw", "TypeError", << >>)

(***************************************************************************)
(* Environment records.  The environments are an arena, an environment is  *)
(* named by its index, and 0 is the absent outer environment.  A Global    *)
(* environment has an object record (bindings: the properties of the       *)
(* global object) and a declarative record (lexical); an Object            *)
(* environment's bindings are the properties of its binding object.        *)
(***************************************************************************)
Names == {"x", "y", "z"}

Binding(v, mutable, initialized) ==
    [value |-> v, mutable |-> mutable, initialized |-> initialized,
     configurable |-> TRUE]

NoBindings == [n \in Names |-> None]

Environment(kind, outer, bindings, lexical) ==
    [kind |-> kind, outer |-> outer, bindings |-> bindings,
     lexical |-> lexical, extensible |-> TRUE]

global_env == 1

\* NewDeclarativeEnvironment(outer): the arena with the new environment, whose
\* index is the new length of the arena.
new_declarative_environment(envs, outer) ==
    Append(envs, Environment("Declarative", outer, NoBindings, NoBindings))

has_lexical_declaration(envs, env, name) == envs[env].lexical[name] # None

has_binding(envs, env, name) ==
    \/ envs[env].bindings[name] # None
    \/ envs[env].lexical[name] # None

get_outer_env(envs, env) == envs[env].outer

\* CreateMutableBinding and CreateImmutableBinding of a declarative or
\* function environment: the binding is created uninitialised.
create_mutable_binding(envs, env, name) ==
    [envs EXCEPT ![env].bindings[name] = Some(Binding("undefined", TRUE, FALSE))]

create_immutable_binding(envs, env, name) ==
    [envs EXCEPT ![env].bindings[name] = Some(Binding("undefined", FALSE, FALSE))]

initialize_binding(envs, env, name, v) ==
    [envs EXCEPT ![env].bindings[name] =
        Some([@[1] EXCEPT !.value = v, !.initialized = TRUE])]

\* SetMutableBinding(name, v, false) on a binding that exists: an immutable
\* binding keeps its value when the code is not strict.
set_mutable_binding(envs, env, name, v) ==
    IF envs[env].lexical[name] # None
    THEN IF envs[env].lexical[name][1].mutable
         THEN [envs EXCEPT ![env].lexical[name] =
                  Some([@[1] EXCEPT !.value = v, !.initialized = TRUE])]
         ELSE envs
    ELSE IF envs[env].bindings[name][1].mutable
    THEN [envs EXCEPT ![env].bindings[name] =
             Some([@[1] EXCEPT !.value = v, !.initialized = TRUE])]
    ELSE envs

\* CanDeclareGlobalVar: the global object has the property or is extensible.
can_declare_global_var(envs, env, name) ==
    envs[env].bindings[name] # None \/ envs[env].extensible

\* CanDeclareGlobalFunction: no property and an extensible global object, or
\* a configurable property, or a writable (and enumerable) data property.
can_declare_global_function(envs, env, name) ==
    IF envs[env].bindings[name] = None THEN envs[env].extensible
    ELSE \/ envs[env].bindings[name][1].configurable
         \/ envs[env].bindings[name][1].mutable

\* CreateGlobalVarBinding(name, true): a property of the global object is
\* created with the value undefined unless the object has it.
create_global_var_binding(envs, env, name) ==
    IF envs[env].bindings[name] = None /\ envs[env].extensible
    THEN [envs EXCEPT ![env].bindings[name] = Some(Binding("undefined", TRUE, TRUE))]
    ELSE envs

\* CreateGlobalFunctionBinding(name, fo, true): the property is defined with
\* the function object as its value.
create_global_function_binding(envs, env, name, fo) ==
    IF envs[env].bindings[name] = None \/ envs[env].bindings[name][1].configurable
    THEN [envs EXCEPT ![env].bindings[name] = Some(Binding(fo, TRUE, TRUE))]
    ELSE [envs EXCEPT ![env].bindings[name] = Some([@[1] EXCEPT !.value = fo])]

(***************************************************************************)
(* EvalDeclarationInstantiation(body, varEnv, lexEnv, privateEnv, strict).  *)
(* A script is what the parser made of the source text: its var-scoped     *)
(* declarations in source order (variables, with the value of their        *)
(* initialiser if they have one, and top-level functions), its lexically   *)
(* scoped declarations, whether it has a "use strict" directive, whether   *)
(* it has no body, and whether its body throws when it runs.               *)
(***************************************************************************)
VariableDeclaration(name, init) == [kind |-> "Variable", name |-> name, init |-> init]

FunctionDeclaration(name) == [kind |-> "Function", name |-> name, init |-> None]

LexicalDeclaration(kind, name) == [kind |-> kind, name |-> name]

\* The function object InstantiateFunctionObject makes of the declaration at
\* position d of the var-scoped declarations.
instantiate_function_object(d) == << "fn1", "fn2", "fn3" >>[d]

\* VarDeclaredNames: the names of the variables and of the top-level functions.
script_var_declared_names(script) ==
    {script.var_declarations[d].name : d \in 1..Len(script.var_declarations)}

\* The walk from lexEnv outward to varEnv: a non-object environment on the
\* way has a binding of one of the names.
RECURSIVE outer_chain_has_binding(_, _, _, _)
outer_chain_has_binding(envs, var_names, this_env, var_env) ==
    IF this_env = var_env \/ this_env = 0 THEN FALSE
    ELSE \/ /\ envs[this_env].kind # "Object"
            /\ \E name \in var_names : has_binding(envs, this_env, name)
         \/ outer_chain_has_binding(envs, var_names, get_outer_env(envs, this_env), var_env)

\* The conflict checks that skip the walk of the outer chain.
var_names_conflict_without_walk(envs, var_names, var_env, lex_env) ==
    /\ envs[var_env].kind = "Global"
    /\ \E name \in var_names : has_lexical_declaration(envs, var_env, name)

\* Step 3, the conflict checks of non-strict eval.
var_names_conflict(envs, var_names, var_env, lex_env) ==
    \/ /\ envs[var_env].kind = "Global"
       /\ \E name \in var_names : has_lexical_declaration(envs, var_env, name)
    \/ outer_chain_has_binding(envs, var_names, lex_env, var_env)

NamesOf(declarations, positions) ==
    {declarations[positions[n]].name : n \in 1..Len(positions)}

\* functionsToInitialize that keeps the first declaration of a name.
RECURSIVE functions_to_initialize_first_wins(_, _, _)
functions_to_initialize_first_wins(var_declarations, d, chosen) ==
    IF d = 0 THEN chosen
    ELSE LET n == Len(var_declarations) + 1 - d
         IN  IF /\ var_declarations[n].kind = "Function"
                /\ var_declarations[n].name \notin NamesOf(var_declarations, chosen)
             THEN functions_to_initialize_first_wins(var_declarations, d - 1,
                                                     Append(chosen, n))
             ELSE functions_to_initialize_first_wins(var_declarations, d - 1, chosen)

\* Step 10: the declarations from position d down to the first, in reverse
\* order; a function whose name is not yet declared is pushed.
RECURSIVE functions_to_initialize(_, _, _)
functions_to_initialize(var_declarations, d, chosen) ==
    IF d = 0 THEN chosen
    ELSE IF /\ var_declarations[d].kind = "Function"
            /\ var_declarations[d].name \notin NamesOf(var_declarations, chosen)
    THEN functions_to_initialize(var_declarations, d - 1, Append(chosen, d))
    ELSE functions_to_initialize(var_declarations, d - 1, chosen)

\* Step 12: the names of the variables that are not names of functions, each
\* once, in source order.
RECURSIVE declared_var_names(_, _, _, _)
declared_var_names(var_declarations, function_names, d, chosen) ==
    IF d > Len(var_declarations) THEN chosen
    ELSE IF /\ var_declarations[d].kind = "Variable"
            /\ var_declarations[d].name \notin function_names
            /\ ~Contains(chosen, var_declarations[d].name)
    THEN declared_var_names(var_declarations, function_names, d + 1,
                            Append(chosen, var_declarations[d].name))
    ELSE declared_var_names(var_declarations, function_names, d + 1, chosen)

\* Step 16: a binding in lexEnv for every lexically scoped declaration.
RECURSIVE instantiate_lexical(_, _, _, _)
instantiate_lexical(envs, lex_env, lex_declarations, d) ==
    IF d > Len(lex_declarations) THEN envs
    ELSE instantiate_lexical(
            IF lex_declarations[d].kind = "const"
            THEN create_immutable_binding(envs, lex_env, lex_declarations[d].name)
            ELSE create_mutable_binding(envs, lex_env, lex_declarations[d].name),
            lex_env, lex_declarations, d + 1)

\* Step 17 for one function.
initialize_function(envs, var_env, name, fo) ==
    IF envs[var_env].kind = "Global"
    THEN create_global_function_binding(envs, var_env, name, fo)
    ELSE IF ~has_binding(envs, var_env, name)
    THEN initialize_binding(create_mutable_binding(envs, var_env, name),
                            var_env, name, fo)
    ELSE set_mutable_binding(envs, var_env, name, fo)

RECURSIVE initialize_functions(_, _, _, _, _)
initialize_functions(envs, var_env, var_declarations, functions, n) ==
    IF n > Len(functions) THEN envs
    ELSE initialize_functions(
            initialize_function(envs, var_env, var_declarations[functions[n]].name,
                                instantiate_function_object(functions[n])),
            var_env, var_declarations, functions, n + 1)

\* Step 18 that initialises the variable whether or not it is bound.
declare_var_always(envs, var_env, vn) ==
    IF envs[var_env].kind = "Global"
    THEN create_global_var_binding(envs, var_env, vn)
    ELSE initialize_binding(create_mutable_binding(envs, var_env, vn),
                            var_env, vn, "undefined")

\* Step 18 for one variable.
declare_var(envs, var_env, vn) ==
    IF envs[var_env].kind = "Global"
    THEN create_global_var_binding(envs, var_env, vn)
    ELSE IF ~has_binding(envs, var_env, vn)
    THEN initialize_binding(create_mutable_binding(envs, var_env, vn),
                            var_env, vn, "undefined")
    ELSE envs

RECURSIVE declare_vars(_, _, _, _)
declare_vars(envs, var_env, var_names, n) ==
    IF n > Len(var_names) THEN envs
    ELSE declare_vars(declare_var(envs, var_env, var_names[n]), var_env, var_names, n + 1)

\* What eval_declaration_instantiation returns, and the environments after it.
Instantiated(envs) == [tag |-> "Ok", value |-> "undefined", envs |-> envs]

NotInstantiated(error, envs) == [tag |-> "Throw", value |-> error, envs |-> envs]

eval_declaration_instantiation(envs, script, var_env, lex_env, strict_eval) ==
    LET var_names == script_var_declared_names(script)
        var_declarations == script.var_declarations
        functions == functions_to_initialize(var_declarations, Len(var_declarations), << >>)
        function_names == NamesOf(var_declarations, functions)
        variables == declared_var_names(var_declarations, function_names, 1, << >>)
        is_global == envs[var_env].kind = "Global"
    IN  IF ~strict_eval /\ var_names_conflict(envs, var_names, var_env, lex_env)
        THEN NotInstantiated("SyntaxError", envs)
        ELSE IF is_global /\ \E name \in function_names :
                                ~can_declare_global_function(envs, var_env, name)
        THEN NotInstantiated("TypeError", envs)
        ELSE IF is_global /\ \E n \in 1..Len(variables) :
                                ~can_declare_global_var(envs, var_env, variables[n])
        THEN NotInstantiated("TypeError", envs)
        ELSE Instantiated(
                declare_vars(
                    initialize_functions(
                        instantiate_lexical(envs, lex_env, script.lex_declarations, 1),
                        var_env, var_declarations, functions, 1),
                    var_env, variables, 1))

(***************************************************************************)
(* PerformEval(x, strictCaller, direct).  The agent is the arena of        *)
(* environments and the execution context stack, whose last element is the *)
(* running execution context.  The source text x is given by what the      *)
(* parser makes of it.  The result carries the calls made, in order, and   *)
(* the eval context if one was built.                                      *)
(***************************************************************************)
ExecutionContext(lex_env, var_env, strict, is_eval) ==
    [lexical_environment |-> lex_env, variable_environment |-> var_env,
     is_strict_mode |-> strict, function |-> None, is_eval |-> is_eval]

running_execution_context(agent) == agent.stack[Len(agent.stack)]

Completion(tag, v) == [tag |-> tag, value |-> v]

\* declared is the arena as eval_declaration_instantiation left it.
Evaluated(agent, result, events, context, declared) ==
    [agent |-> agent, result |-> result, events |-> events, context |-> context,
     declared |-> declared]

\* SourceCode::parse_source: a strict caller's text is parsed as strict code,
\* in which some texts that are scripts in sloppy mode are errors.
parse_source(x, strict_caller) ==
    IF x.error \/ (strict_caller /\ x.sloppy_only) THEN None ELSE Some(x.script)

\* ResolveBinding: the nearest environment from env outward that has the name.
RECURSIVE resolve_binding(_, _, _)
resolve_binding(envs, env, name) ==
    IF env = 0 THEN 0
    ELSE IF has_binding(envs, env, name) THEN env
    ELSE resolve_binding(envs, get_outer_env(envs, env), name)

\* Running the body: the initialisers of its variables are assigned, in
\* source order, to the bindings the names resolve to from lexEnv.
RECURSIVE assign_initialisers(_, _, _, _)
assign_initialisers(envs, lex_env, var_declarations, d) ==
    IF d > Len(var_declarations) THEN envs
    ELSE LET decl == var_declarations[d]
             env == resolve_binding(envs, lex_env, decl.name)
         IN  assign_initialisers(
                IF decl.init # None /\ env # 0
                THEN set_mutable_binding(envs, env, decl.name, decl.init[1])
                ELSE envs,
                lex_env, var_declarations, d + 1)

\* Vm::execute on the compiled body, in the running (eval) context.
execute(agent, script) ==
    [agent |-> [agent EXCEPT !.envs =
                    assign_initialisers(agent.envs,
                                        running_execution_context(agent).lexical_environment,
                                        script.var_declarations, 1)],
     result |-> IF script.throws THEN Completion("Throw", "error")
                ELSE Completion("Ok", "undefined")]

\* The environments of the eval context when the new lexical environment is
\* always a child of the global environment.
eval_environments_with_global_outer(envs, direct, strict_eval, running) ==
    LET created == new_declarative_environment(envs, global_env)
    IN  [envs |-> created, lexical_environment |-> Len(created),
         variable_environment |-> IF strict_eval THEN Len(created)
                                  ELSE IF direct THEN running.variable_environment
                                  ELSE global_env]

\* The environments of the eval context when strict eval keeps the variable
\* environment of the caller or of the realm.
eval_environments_ignoring_strict(envs, direct, strict_eval, running) ==
    LET outer == IF direct THEN running.lexical_environment ELSE global_env
        created == new_declarative_environment(envs, outer)
    IN  [envs |-> created, lexical_environment |-> Len(created),
         variable_environment |-> IF direct THEN running.variable_environment
                                  ELSE global_env]

\* Steps 16 to 18: lexEnv is a new declarative environment whose outer is the
\* running context's lexical environment or the global environment; varEnv
\* is the running context's, or the global environment, or lexEnv if strict.
eval_environments(envs, direct, strict_eval, running) ==
    LET outer == IF direct THEN running.lexical_environment ELSE global_env
        created == new_declarative_environment(envs, outer)
    IN  [envs |-> created, lexical_environment |-> Len(created),
         variable_environment |-> IF strict_eval THEN Len(created)
                                  ELSE IF direct THEN running.variable_environment
                                  ELSE global_env]

\* Steps 28 to 33 that return the failure of the instantiation at once.
run_eval_context_returning_on_failure(agent, script, context) ==
    LET instantiated ==
            eval_declaration_instantiation(agent.envs, script,
                context.variable_environment, context.lexical_environment,
                context.is_strict_mode)
        declared == [agent EXCEPT !.envs = instantiated.envs]
        executed == execute(declared, script)
        popped == [executed.agent EXCEPT !.stack = SubSeq(@, 1, Len(@) - 1)]
    IN  IF instantiated.tag = "Ok"
        THEN Evaluated(popped, executed.result,
                       << "eval_declaration_instantiation", "compile_eval_body",
                          "execute", "pop" >>, Some(context), Some(declared.envs))
        ELSE Evaluated(declared, Completion("Throw", instantiated.value),
                       << "eval_declaration_instantiation" >>, Some(context), None)

\* Steps 28 to 33, on the agent whose running context is the eval context:
\* the declarations are instantiated; the body is compiled and run if that
\* succeeded; the context is popped.
run_eval_context(agent, script, context) ==
    LET instantiated ==
            eval_declaration_instantiation(agent.envs, script,
                context.variable_environment, context.lexical_environment,
                context.is_strict_mode)
        declared == [agent EXCEPT !.envs = instantiated.envs]
        executed == execute(declared, script)
        after == IF instantiated.tag = "Ok" THEN executed.agent ELSE declared
        popped == [after EXCEPT !.stack = SubSeq(@, 1, Len(@) - 1)]
    IN  IF instantiated.tag = "Ok"
        THEN Evaluated(popped, executed.result,
                       << "eval_declaration_instantiation", "compile_eval_body",
                          "execute", "pop" >>, Some(context), Some(declared.envs))
        ELSE Evaluated(popped, Completion("Throw", instantiated.value),
                       << "eval_declaration_instantiation", "pop" >>, Some(context), None)

\* Steps 5 to 33 in which only a strict caller makes the eval strict.
eval_string_ignoring_directive(agent, x, direct, strict_caller, hook_ok) ==
    LET parsed == parse_source(x, strict_caller)
        script == parsed[1]
        strict_eval == strict_caller
        environments == eval_environments(agent.envs, direct, strict_eval,
                                          running_execution_context(agent))
        context == ExecutionContext(environments.lexical_environment,
                                    environments.variable_environment,
                                    strict_eval, TRUE)
        pushed == [envs |-> environments.envs, stack |-> Append(agent.stack, context)]
        ran == run_eval_context(pushed, script, context)
    IN  IF ~hook_ok
        THEN Evaluated(agent, Completion("Throw", "EvalError"),
                       << "host_ensure_can_compile_strings" >>, None, None)
        ELSE IF parsed = None
        THEN Evaluated(agent, Completion("Throw", "SyntaxError"),
                       << "host_ensure_can_compile_strings", "parse_source" >>, None, None)
        ELSE IF script.is_empty
        THEN Evaluated(agent, Completion("Ok", "undefined"),
                       << "host_ensure_can_compile_strings", "parse_source" >>, None, None)
        ELSE Evaluated(ran.agent, ran.result,
                       << "host_ensure_can_compile_strings", "parse_source",
                          "new_declarative_environment", "push" >> \o ran.events,
                       ran.context, ran.declared)

\* Steps 5 to 33, for a String x.
eval_string(agent, x, direct, strict_caller, hook_ok) ==
    LET parsed == parse_source(x, strict_caller)
        script == parsed[1]
        strict_eval == strict_caller \/ script.use_strict
        environments == eval_environments(agent.envs, direct, strict_eval,
                                          running_execution_context(agent))
        context == ExecutionContext(environments.lexical_environment,
                                    environments.variable_environment,
                                    strict_eval, TRUE)
        pushed == [envs |-> environments.envs, stack |-> Append(agent.stack, context)]
        ran == run_eval_context(pushed, script, context)
    IN  IF ~hook_ok
        THEN Evaluated(agent, Completion("Throw", "EvalError"),
                       << "host_ensure_can_compile_strings" >>, None, None)
        ELSE IF parsed = None
        THEN Evaluated(agent, Completion("Throw", "SyntaxError"),
                       << "host_ensure_can_compile_strings", "parse_source" >>, None, None)
        ELSE IF script.is_empty
        THEN Evaluated(agent, Completion("Ok", "undefined"),
                       << "host_ensure_can_compile_strings", "parse_source" >>, None, None)
        ELSE Evaluated(ran.agent, ran.result,
                       << "host_ensure_can_compile_strings", "parse_source",
                          "new_declarative_environment", "push" >> \o ran.events,
                       ran.context, ran.declared)

\* perform_eval that asks the host before it looks at x.
perform_eval_asking_host_first(agent, x, direct, strict_caller, hook_ok) ==
    IF ~hook_ok
    THEN Evaluated(agent, Completion("Throw", "EvalError"),
                   << "host_ensure_can_compile_strings" >>, None, None)
    ELSE IF ~x.is_string
    THEN Evaluated(agent, Completion("Ok", x.value),
                   << "host_ensure_can_compile_strings" >>, None, None)
    ELSE eval_string(agent, x, direct, strict_caller, hook_ok)

\* perform_eval; its callers pass direct or not strict_caller.
perform_eval(agent, x, direct, strict_caller, hook_ok) ==
    IF ~x.is_string
    THEN Evaluated(agent, Completion("Ok", x.value), << >>, None, None)
    ELSE eval_string(agent, x, direct, strict_caller, hook_ok)

(***************************************************************************)
(* The scopes an eval is called from: the arena of environments and the    *)
(* environments of the running execution context.                          *)
(***************************************************************************)
Scope(envs, lex_env, var_env) == [envs |-> envs, lex_env |-> lex_env, var_env |-> var_env]

Bound(name, binding) == [NoBindings EXCEPT ![name] = Some(binding)]

GlobalEnvironment(properties, lexical, extensible) ==
    [Environment("Global", 0, properties, lexical) EXCEPT !.extensible = extensible]

\* Code at the top level of a script.
GlobalScope(properties, lexical, extensible) ==
    Scope(<< GlobalEnvironment(properties, lexical, extensible) >>, global_env, global_env)

\* Code in a block at the top level of a script.
BlockScope(properties, block) ==
    Scope(<< GlobalEnvironment(properties, NoBindings, TRUE),
             Environment("Declarative", global_env, block, NoBindings) >>, 2, global_env)

\* Code in a block of a function.
FunctionScope(locals, block) ==
    Scope(<< GlobalEnvironment(NoBindings, NoBindings, TRUE),
             Environment("Function", global_env, locals, NoBindings),
             Environment("Declarative", 2, block, NoBindings) >>, 3, 2)

\* Code in a with statement of a function.
WithScope(locals, object) ==
    Scope(<< GlobalEnvironment(NoBindings, NoBindings, TRUE),
             Environment("Function", global_env, locals, NoBindings),
             Environment("Object", 2, object, NoBindings) >>, 3, 2)

\* The agent running code of the scope.
Agent(scope, strict) ==
    [envs |-> scope.envs,
     stack |-> << ExecutionContext(scope.lex_env, scope.var_env, strict, FALSE) >>]

(***************************************************************************)
(* The arenas and the handles into them.  An arena is a vector of slots    *)
(* that hold a record or nothing; a record is named by the number it got   *)
(* when it was allocated.  A handle is an arena and an index; its referent *)
(* is the record it was made for.  A mark-and-sweep cycle marks what the   *)
(* roots refer to, drops the slots that are not marked, moves the others   *)
(* down, and has every root rewrite its handles through the compaction     *)
(* map of their arena.                                                     *)
(***************************************************************************)
Arenas == {"arrays", "objects", "strings"}

Handle(arena, index, referent) == [arena |-> arena, index |-> index, referent |-> referent]

\* The roots: an Array handle and a VmIterator, each present or not.
NoIterator ==
    [kind |-> "InvalidIterator", object |-> None, visited_keys |-> << >>,
     remaining_keys |-> << >>, array |-> None, iterator |-> None, next_method |-> None]

EmptyMemory ==
    [arenas |-> [a \in Arenas |-> << >>], array |-> None, iterator |-> NoIterator,
     allocated |-> 0, cycles |-> 0, moved |-> FALSE]

\* Heap::create: the record is pushed and the handle is that of the last slot.
create(m, arena) ==
    [m EXCEPT !.arenas[arena] = Append(@, Some(m.allocated + 1)),
              !.allocated = @ + 1]

HandleSeq(seq) == {seq[n] : n \in 1..Len(seq)}

OptionSet(option) == IF option = None THEN {} ELSE {option[1]}

\* mark_values: the handles a root pushes to the work queues.
mark_values_array(root) == OptionSet(root)

mark_values_iterator(it) ==
    IF it.kind = "ObjectProperties"
    THEN OptionSet(it.object) \cup HandleSeq(it.visited_keys)
            \cup HandleSeq(it.remaining_keys)
    ELSE IF it.kind = "ArrayValues" THEN OptionSet(it.array)
    ELSE IF it.kind = "GenericIterator"
    THEN OptionSet(it.iterator) \cup OptionSet(it.next_method)
    ELSE {}

\* The marked slots of an arena.
Marked(m, arena) ==
    {h.index : h \in {g \in mark_values_array(m.array)
                            \cup mark_values_iterator(m.iterator) : g.arena = arena}}

\* The compaction of an arena: the marked slots in their order.
RECURSIVE compact(_, _, _)
compact(slots, marked, n) ==
    IF n > Len(slots) THEN << >>
    ELSE (IF n \in marked THEN << slots[n] >> ELSE << >>)
            \o compact(slots, marked, n + 1)

\* CompactionList::shift_index: the index less the dropped slots before it.
shift_index(marked, index) ==
    index - Cardinality({n \in 1..index : n \notin marked})

CompactionLists(m) == [a \in Arenas |-> Marked(m, a)]

sweep_handle(h, compactions) ==
    [h EXCEPT !.index = shift_index(compactions[h.arena], h.index)]

sweep_option(option, compactions) ==
    IF option = None THEN None ELSE Some(sweep_handle(option[1], compactions))

sweep_slice(seq, compactions) ==
    [n \in 1..Len(seq) |-> sweep_handle(seq[n], compactions)]

\* sweep_values of Array.
sweep_values_array(root, compactions) == sweep_option(root, compactions)

\* sweep_values of ObjectPropertiesIterator that leaves the remaining keys.
sweep_values_object_properties_without_remaining(it, compactions) ==
    [it EXCEPT !.object = sweep_option(@, compactions),
               !.visited_keys = sweep_slice(@, compactions)]

\* sweep_values of ObjectPropertiesIterator.
sweep_values_object_properties(it, compactions) ==
    [it EXCEPT !.object = sweep_option(@, compactions),
               !.visited_keys = sweep_slice(@, compactions),
               !.remaining_keys = sweep_slice(@, compactions)]

\* sweep_values of ArrayValuesIterator.
sweep_values_array_values(it, compactions) ==
    [it EXCEPT !.array = sweep_option(@, compactions)]

\* sweep_values of the IteratorRecord of a GenericIterator.
sweep_values_iterator_record(it, compactions) ==
    [it EXCEPT !.iterator = sweep_option(@, compactions),
               !.next_method = sweep_option(@, compactions)]

\* sweep_values of VmIterator.
sweep_values_iterator(it, compactions) ==
    IF it.kind = "ObjectProperties" THEN sweep_values_object_properties(it, compactions)
    ELSE IF it.kind = "ArrayValues" THEN sweep_values_array_values(it, compactions)
    ELSE IF it.kind = "GenericIterator" THEN sweep_values_iterator_record(it, compactions)
    ELSE it

\* A mark-and-sweep cycle.
mark_and_sweep(m) ==
    LET compactions == CompactionLists(m)
        arenas == [a \in Arenas |-> compact(m.arenas[a], compactions[a], 1)]
    IN  [m EXCEPT !.arenas = arenas,
                  !.array = sweep_values_array(@, compactions),
                  !.iterator = sweep_values_iterator(@, compactions),
                  !.cycles = @ + 1,
                  !.moved = \E a \in Arenas : \E n \in compactions[a] :
                                shift_index(compactions[a], n) # n]

(***************************************************************************)
(* The state: one Array, the number of operations performed on it, and     *)
(* the record of the last operation (its inputs, its result, and the       *)
(* Array as it was when the operation began).                              *)
(***************************************************************************)
VARIABLES arr, last, nops, heap, iter, forin, generic, vmiter, agent, mem

vars == << arr, last, nops, heap, iter, forin, generic, vmiter, agent, mem >>

\* The part of the state the internal methods of the Array leave alone.
others == << heap, iter, forin, generic, vmiter, agent, mem >>

\* The list an array of n elements is created from: "10", "20", ...
SourceList(n) == [i \in 1..n |-> ToString(10 * i)]

EmptyDesc == PD(None, None, None, None, None, None)

\* Descriptors passed to [[DefineOwnProperty]] on an array index.
ElementDescs ==
    { EmptyDesc,
      PD(Some("99"), None, None, None, None, None),
      PD(Some("30"), None, None, None, None, Some(FALSE)),
      PD(Some("99"), Some(TRUE), None, None, Some(TRUE), Some(TRUE)),
      PD(None, Some(FALSE), None, None, None, None),
      PD(None, None, None, None, Some(FALSE), None),
      PD(None, None, Some("f"), None, None, None),
      PD(None, None, None, Some("g"), None, Some(TRUE)),
      PD(None, None, Some("f"), Some("g"), Some(TRUE), Some(FALSE)) }

\* Descriptors passed to [[DefineOwnProperty]] on "length".
LengthDescs ==
    { PD(v, w, None, None, None, None) :
        v \in {None} \cup {Some(n) : n \in 0..(MaxIndex + 1)},
        w \in {None, Some(FALSE), Some(TRUE)} }
    \cup { PD(Some(0), None, None, None, None, Some(TRUE)) }

\* Descriptors passed to [[DefineOwnProperty]] on a key of the backing object.
BackingDescs ==
    { PD(Some("99"), Some(TRUE), None, None, Some(TRUE), Some(TRUE)),
      PD(Some("30"), None, None, None, None, None) }

Record(op, key, desc, r, out) ==
    [op |-> op, key |-> key, desc |-> desc, ret |-> r.ret, panic |-> r.panic,
     out |-> out, pre |-> arr]

\* An ordinary object of the heap.
OrdinaryObject(props, prototype) ==
    [extensible |-> TRUE, props |-> props, prototype |-> prototype]

DataProperty(v, e) == PD(Some(v), Some(TRUE), None, None, Some(e), Some(TRUE))
AccessorProperty(g, e) == PD(None, None, Some(g), None, Some(e), Some(TRUE))

\* The heap of a fresh realm: %Array.prototype% and, above it,
\* %Object.prototype%, neither with a property the model reads.
object_prototype == "ObjectPrototype"

Heap(array_props, object_props) ==
    [name \in {array_prototype, object_prototype} |->
        IF name = array_prototype
        THEN OrdinaryObject(array_props, Some(object_prototype))
        ELSE OrdinaryObject(object_props, None)]

DefaultHeap == Heap(<< >>, << >>)

Init ==
    /\ \E n \in 0..(MaxIndex + 1) : arr = from_slice(SourceList(n))
    /\ heap = DefaultHeap
    /\ iter = ArrayValuesIterator_new(arr)
    /\ forin = ObjectPropertiesIterator_new("A")
    /\ generic = GenericIterator("it", "next")
    /\ vmiter = VmIterator("GenericIterator")
    /\ agent = Agent(GlobalScope(NoBindings, NoBindings, TRUE), FALSE)
    /\ mem = EmptyMemory
    /\ last = [op |-> "init", key |-> LengthKey, desc |-> EmptyDesc, ret |-> TRUE,
               panic |-> FALSE, out |-> None, pre |-> arr]
    /\ nops = 0

\* A panic ends the process; at most MaxOps operations are performed.
Running == nops < MaxOps /\ ~last.panic

\* [[DefineOwnProperty]] on an integer key of the index range.
DefineElement(i, d) ==
    /\ Running
    /\ arr' = try_define_own_property(arr, IntKey(i), d).arr
    /\ last' = Record("define", IntKey(i), d,
                      try_define_own_property(arr, IntKey(i), d), None)
    /\ nops' = nops + 1
    /\ UNCHANGED others

\* [[DefineOwnProperty]] on "length".
DefineLength(d) ==
    /\ Running
    /\ arr' = try_define_own_property(arr, LengthKey, d).arr
    /\ last' = Record("define", LengthKey, d,
                      try_define_own_property(arr, LengthKey, d), None)
    /\ nops' = nops + 1
    /\ UNCHANGED others

\* [[DefineOwnProperty]] on a key that belongs to the backing object.
DefineBacking(key, d) ==
    /\ Running
    /\ arr' = try_define_own_property(arr, key, d).arr
    /\ last' = Record("define", key, d, try_define_own_property(arr, key, d), None)
    /\ nops' = nops + 1
    /\ UNCHANGED others

\* [[Delete]]
Delete(key) ==
    /\ Running
    /\ arr' = try_delete(arr, key).arr
    /\ last' = Record("delete", key, EmptyDesc, try_delete(arr, key), None)
    /\ nops' = nops + 1
    /\ UNCHANGED others

SetExtensible(value) ==
    /\ Running
    /\ arr' = internal_set_extensible(arr, value)
    /\ last' = [op |-> "set_extensible", key |-> LengthKey, desc |-> EmptyDesc,
                ret |-> value, panic |-> FALSE, out |-> None, pre |-> arr]
    /\ nops' = nops + 1
    /\ UNCHANGED others

\* [[GetOwnProperty]]: the state is only read.
GetOwnProperty(key) ==
    /\ Running
    /\ arr' = arr
    /\ last' = Record("get_own_property", key, EmptyDesc, Res(arr, TRUE),
                      try_get_own_property(arr, key))
    /\ nops' = nops + 1
    /\ UNCHANGED others

\* [[OwnPropertyKeys]]: the state is only read.
OwnPropertyKeys ==
    /\ Running
    /\ arr' = arr
    /\ last' = Record("own_property_keys", LengthKey, EmptyDesc, Res(arr, TRUE),
                      try_own_property_keys(arr))
    /\ nops' = nops + 1
    /\ UNCHANGED others

Next ==
    \/ \E i \in ARRAY_INDEX_RANGE, d \in ElementDescs : DefineElement(i, d)
    \/ \E d \in LengthDescs : DefineLength(d)
    \/ \E key \in BackingKeys, d \in BackingDescs : DefineBacking(key, d)
    \/ \E key \in Keys : Delete(key)
    \/ \E value \in BOOLEAN : SetExtensible(value)
    \/ \E key \in Keys : GetOwnProperty(key)
    \/ OwnPropertyKeys

Spec == Init /\ [][Next]_vars

(***************************************************************************)
(* The define algorithm on one slot, with every well-formed descriptor.    *)
(***************************************************************************)
\* SpecDefine works on the first slot of the array.
DefineSlots == {0}

OptionOf(S) == {None} \cup {Some(x) : x \in S}

\* Every descriptor that is not both a data and an accessor descriptor.
AllDescs ==
    { d \in [value : OptionOf({"99"}), writable : OptionOf(BOOLEAN),
             get : OptionOf({"f", "h"}), set : OptionOf({"g"}),
             enumerable : OptionOf(BOOLEAN), configurable : OptionOf(BOOLEAN)] :
        ~(is_accessor_descriptor(d) /\ is_data_descriptor(d)) }

InitDefine ==
    /\ \E n \in 0..1 : arr = from_slice(SourceList(n))
    /\ heap = DefaultHeap
    /\ iter = ArrayValuesIterator_new(arr)
    /\ forin = ObjectPropertiesIterator_new("A")
    /\ generic = GenericIterator("it", "next")
    /\ vmiter = VmIterator("GenericIterator")
    /\ agent = Agent(GlobalScope(NoBindings, NoBindings, TRUE), FALSE)
    /\ mem = EmptyMemory
    /\ last = [op |-> "init", key |-> LengthKey, desc |-> EmptyDesc, ret |-> TRUE,
               panic |-> FALSE, out |-> None, pre |-> arr]
    /\ nops = 0

NextDefine ==
    \/ \E i \in DefineSlots, d \in AllDescs : DefineElement(i, d)
    \/ \E i \in DefineSlots : Delete(IntKey(i))
    \/ \E value \in BOOLEAN : SetExtensible(value)
    \/ \E i \in DefineSlots : GetOwnProperty(IntKey(i))

SpecDefine == InitDefine /\ [][NextDefine]_vars

(***************************************************************************)
(* [[Get]] on the Array, with properties on the prototype chain.           *)
(***************************************************************************)
\* The heaps SpecGet begins with: properties of %Array.prototype% and of
\* %Object.prototype% that a [[Get]] on the Array can fall through to.
GetHeaps ==
    { DefaultHeap,
      Heap(<< [key |-> IntKey(0), desc |-> DataProperty("77", TRUE)] >>, << >>),
      Heap(<< [key |-> IntKey(1), desc |-> AccessorProperty("h", TRUE)] >>, << >>),
      Heap(<< >>, << [key |-> IntKey(0), desc |-> DataProperty("88", TRUE)],
                     [key |-> StrKey("a"), desc |-> AccessorProperty("f", TRUE)] >>) }

\* The slots SpecGet defines and deletes.
GetSlots == {0, 1}

GetDescs ==
    { PD(Some("99"), None, None, None, None, None),
      PD(None, None, Some("f"), None, None, Some(TRUE)),
      PD(None, None, Some("h"), Some("g"), Some(TRUE), Some(TRUE)),
      PD(None, None, None, Some("g"), None, Some(TRUE)) }

\* The this values of a [[Get]]: the Array itself or another object.
Receivers == {"A", "R"}

Prototypes == {None, Some(array_prototype), Some(object_prototype)}

InitGet ==
    /\ \E n \in 0..2 : arr = from_slice(SourceList(n))
    /\ heap \in GetHeaps
    /\ iter = ArrayValuesIterator_new(arr)
    /\ forin = ObjectPropertiesIterator_new("A")
    /\ generic = GenericIterator("it", "next")
    /\ vmiter = VmIterator("GenericIterator")
    /\ agent = Agent(GlobalScope(NoBindings, NoBindings, TRUE), FALSE)
    /\ mem = EmptyMemory
    /\ last = [op |-> "init", key |-> LengthKey, desc |-> EmptyDesc, ret |-> TRUE,
               panic |-> FALSE, out |-> None, pre |-> arr]
    /\ nops = 0

\* [[SetPrototypeOf]]
SetPrototype(prototype) ==
    /\ Running
    /\ arr' = internal_set_prototype(arr, prototype)
    /\ last' = [op |-> "set_prototype", key |-> LengthKey, desc |-> EmptyDesc,
                ret |-> TRUE, panic |-> FALSE, out |-> prototype, pre |-> arr]
    /\ nops' = nops + 1
    /\ UNCHANGED others

\* try_get: the state is only read.
TryGet(key, receiver) ==
    /\ Running
    /\ arr' = arr
    /\ last' = [op |-> "try_get", key |-> key, desc |-> EmptyDesc, ret |-> TRUE,
                panic |-> FALSE,
                out |-> [receiver |-> receiver,
                         result |-> try_get(heap, arr, key, receiver)],
                pre |-> arr]
    /\ nops' = nops + 1
    /\ UNCHANGED others

\* internal_get with the getters of the model, which change no state.
InternalGet(key, receiver) ==
    /\ Running
    /\ arr' = arr
    /\ last' = [op |-> "internal_get", key |-> key, desc |-> EmptyDesc, ret |-> TRUE,
                panic |-> FALSE,
                out |-> [receiver |-> receiver,
                         result |-> internal_get(heap, arr, key, receiver)],
                pre |-> arr]
    /\ nops' = nops + 1
    /\ UNCHANGED others

NextGet ==
    \/ \E i \in GetSlots, d \in GetDescs : DefineElement(i, d)
    \/ \E key \in BackingKeys, d \in GetDescs : DefineBacking(key, d)
    \/ \E i \in GetSlots : Delete(IntKey(i))
    \/ \E prototype \in Prototypes : SetPrototype(prototype)
    \/ \E key \in Keys, receiver \in Receivers : TryGet(key, receiver)
    \/ \E key \in Keys, receiver \in Receivers : InternalGet(key, receiver)

SpecGet == InitGet /\ [][NextGet]_vars

(***************************************************************************)
(* Iteration over the values of the Array, interleaved with changes of     *)
(* the Array.                                                              *)
(***************************************************************************)
\* An iteration of the model takes at most MaxSteps steps: enough to reach
\* the end of the longest array and step once more.
MaxSteps == MaxIndex + 3

IterHeaps ==
    { DefaultHeap,
      Heap(<< [key |-> IntKey(1), desc |-> DataProperty("77", TRUE)] >>, << >>) }

IterDescs ==
    { PD(Some("99"), Some(TRUE), None, None, Some(TRUE), Some(TRUE)),
      PD(None, None, Some("f"), None, Some(TRUE), Some(TRUE)) }

InitArrayValues ==
    /\ \E n \in 0..(MaxIndex + 1) : arr = from_slice(SourceList(n))
    /\ heap \in IterHeaps
    /\ iter = ArrayValuesIterator_new(arr)
    /\ forin = ObjectPropertiesIterator_new("A")
    /\ generic = GenericIterator("it", "next")
    /\ vmiter = VmIterator("GenericIterator")
    /\ agent = Agent(GlobalScope(NoBindings, NoBindings, TRUE), FALSE)
    /\ mem = EmptyMemory
    /\ last = [op |-> "init", key |-> LengthKey, desc |-> EmptyDesc, ret |-> TRUE,
               panic |-> FALSE, out |-> None, pre |-> arr]
    /\ nops = 0

\* step_value on the ArrayValues record; last.out is the record before the
\* step.
StepArrayValues ==
    /\ Len(iter.log) < MaxSteps
    /\ ~last.panic
    /\ iter' = ArrayValuesIterator_next(heap, arr, iter)
    /\ last' = [op |-> "step_value", key |-> IntKey(iter.index), desc |-> EmptyDesc,
                ret |-> TRUE, panic |-> FALSE, out |-> iter, pre |-> arr]
    /\ UNCHANGED << arr, nops, heap, forin, generic, vmiter, agent, mem >>

\* During an iteration the first slot is redefined or an element is
\* appended.
DefineFirstOrAppend(i, d) ==
    /\ i \in {0, arr.len}
    /\ DefineElement(i, d)

\* During an iteration the length is set to one or grows by one.
SetLength(n) ==
    /\ n \in {1, arr.len + 1}
    /\ DefineLength(PD(Some(n), None, None, None, None, None))

NextArrayValues ==
    \/ StepArrayValues
    \/ \E i \in ARRAY_INDEX_RANGE, d \in IterDescs : DefineFirstOrAppend(i, d)
    \/ \E n \in 0..(MaxIndex + 1) : SetLength(n)
    \/ \E i \in {0, 1} : Delete(IntKey(i))

SpecArrayValues == InitArrayValues /\ [][NextArrayValues]_vars

(***************************************************************************)
(* for-in over the Array or over its prototype, interleaved with changes   *)
(* of the objects of the chain.                                            *)
(***************************************************************************)
\* The heaps SpecForIn begins with: properties of %Array.prototype% and of
\* %Object.prototype% whose keys the objects of the chain share.
ForInHeaps ==
    { Heap(<< [key |-> IntKey(0), desc |-> DataProperty("77", TRUE)],
              [key |-> StrKey("a"), desc |-> DataProperty("78", FALSE)] >>,
           << [key |-> StrKey("a"), desc |-> DataProperty("88", TRUE)],
              [key |-> IntKey(0), desc |-> DataProperty("89", TRUE)] >>),
      Heap(<< [key |-> StrKey("a"), desc |-> AccessorProperty("f", TRUE)],
              [key |-> SymKey("s"), desc |-> DataProperty("79", TRUE)] >>,
           << [key |-> StrKey("a"), desc |-> DataProperty("88", TRUE)],
              [key |-> StrKey("b"), desc |-> DataProperty("89", TRUE)] >>) }

ForInElementDescs ==
    { PD(None, None, Some("f"), None, Some(TRUE), Some(TRUE)),
      PD(Some("99"), None, None, None, Some(FALSE), Some(TRUE)) }

ForInBackingDescs ==
    { PD(Some("99"), Some(TRUE), None, None, Some(TRUE), Some(TRUE)) }

InitForIn ==
    /\ \E n \in 0..2 : arr = from_slice(SourceList(n))
    /\ heap \in ForInHeaps
    /\ iter = ArrayValuesIterator_new(arr)
    /\ forin \in {ObjectPropertiesIterator_new("A"),
                   ObjectPropertiesIterator_new(array_prototype)}
    /\ generic = GenericIterator("it", "next")
    /\ vmiter = VmIterator("GenericIterator")
    /\ agent = Agent(GlobalScope(NoBindings, NoBindings, TRUE), FALSE)
    /\ mem = EmptyMemory
    /\ last = [op |-> "init", key |-> LengthKey, desc |-> EmptyDesc, ret |-> TRUE,
               panic |-> FALSE, out |-> None, pre |-> arr]
    /\ nops = 0

\* The objects of the chain, as the iterator sees them.
Objects == [arr |-> arr, heap |-> heap]

\* step_value on the ObjectProperties record.
StepObjectProperties ==
    /\ Len(forin.log) < MaxSteps
    /\ ~last.panic
    /\ LET r == ObjectPropertiesIterator_next(heap, arr, forin)
       IN  forin' = [r.it EXCEPT
                       !.log = Append(@, r.result),
                       !.origin = IF forin.log = << >> THEN Objects ELSE @,
                       !.intact = @ /\ (forin.log = << >> \/ forin.origin = Objects)]
    /\ last' = [op |-> "for_in_next", key |-> LengthKey, desc |-> EmptyDesc,
                ret |-> TRUE, panic |-> FALSE, out |-> forin, pre |-> arr]
    /\ UNCHANGED << arr, nops, heap, iter, generic, vmiter, agent, mem >>

\* [[Delete]] on an ordinary object of the heap.
HeapDelete(object, key) ==
    /\ Running
    /\ heap' = [heap EXCEPT ![object] = ordinary_delete(@, key).obj]
    /\ last' = [op |-> "heap_delete", key |-> key, desc |-> EmptyDesc,
                ret |-> ordinary_delete(heap[object], key).ret, panic |-> FALSE,
                out |-> object, pre |-> arr]
    /\ nops' = nops + 1
    /\ UNCHANGED << arr, iter, forin, generic, vmiter, agent, mem >>

NextForIn ==
    \/ StepObjectProperties
    \/ \E d \in ForInElementDescs : DefineElement(0, d)
    \/ \E d \in ForInBackingDescs : DefineBacking(StrKey("a"), d)
    \/ \E key \in {IntKey(0), StrKey("a")} : Delete(key)
    \/ \E key \in {IntKey(0), StrKey("a")} : HeapDelete(array_prototype, key)

SpecForIn == InitForIn /\ [][NextForIn]_vars

(***************************************************************************)
(* Steps of a GenericIterator whose next method does whatever user code    *)
(* can do.                                                                 *)
(***************************************************************************)
\* Reading a property of the result object: it throws or gives a value.
Reads(values) ==
    {[throws |-> TRUE, value |-> "undefined"]}
        \cup {[throws |-> FALSE, value |-> v] : v \in values}

DoneValues == {"true", "false", "undefined", "0", "1", "done"}

\* What a call of the next method can do.
NextBehaviours ==
    [throws : BOOLEAN, is_object : BOOLEAN, done : Reads(DoneValues),
     value : Reads({"10", "undefined"})]

InitGeneric ==
    /\ \E n \in 0..1 : arr = from_slice(SourceList(n))
    /\ heap = DefaultHeap
    /\ iter = ArrayValuesIterator_new(arr)
    /\ forin = ObjectPropertiesIterator_new("A")
    /\ generic \in {GenericIterator(i, m) : i \in {"it", "A"}, m \in {"next", "f"}}
    /\ vmiter = VmIterator("GenericIterator")
    /\ agent = Agent(GlobalScope(NoBindings, NoBindings, TRUE), FALSE)
    /\ mem = EmptyMemory
    /\ last = [op |-> "init", key |-> LengthKey, desc |-> EmptyDesc, ret |-> TRUE,
               panic |-> FALSE, out |-> None, pre |-> arr]
    /\ nops = 0

\* step_value on the GenericIterator record: the iterator and the next
\* method are kept for the next step.
StepGeneric(behaviour) ==
    /\ generic.steps < MaxSteps
    /\ generic' = [generic EXCEPT !.steps = @ + 1]
    /\ last' = [op |-> "generic_step", key |-> LengthKey, desc |-> EmptyDesc,
                ret |-> TRUE, panic |-> FALSE,
                out |-> [behaviour |-> behaviour,
                         outcome |-> step_value_generic(generic, behaviour)],
                pre |-> arr]
    /\ UNCHANGED << arr, nops, heap, iter, forin, vmiter, agent, mem >>

NextGeneric == \E behaviour \in NextBehaviours : StepGeneric(behaviour)

SpecGeneric == InitGeneric /\ [][NextGeneric]_vars

(***************************************************************************)
(* Obtaining an iterator of a value and stepping it.                       *)
(***************************************************************************)
\* The Array, an ordinary object and a primitive.
IterableValues == {"A", "O", "1"}

\* What the lookup of @@iterator gives.
Lookups == Reads({"undefined", "1", array_prototype_values, "m"})

\* What the call of the @@iterator method does.
MethodBehaviours ==
    [throws : BOOLEAN, is_object : BOOLEAN, next : Reads({"undefined", "1", "next"})]

InitFromValue ==
    /\ \E n \in 0..1 : arr = from_slice(SourceList(n))
    /\ heap = DefaultHeap
    /\ iter = ArrayValuesIterator_new(arr)
    /\ forin = ObjectPropertiesIterator_new("A")
    /\ generic = GenericIterator("it", "next")
    /\ vmiter = VmIterator("EmptySliceIterator")
    /\ agent = Agent(GlobalScope(NoBindings, NoBindings, TRUE), FALSE)
    /\ mem = EmptyMemory
    /\ last = [op |-> "init", key |-> LengthKey, desc |-> EmptyDesc, ret |-> TRUE,
               panic |-> FALSE, out |-> None, pre |-> arr]
    /\ nops = 0

\* from_value on a value; the record it returns replaces the current one.
FromValue(value, lookup, behaviour) ==
    LET r == from_value(value, lookup, behaviour)
    IN  /\ nops < MaxOps
        /\ nops' = nops + 1
        /\ IF r.tag = "Ok"
           THEN /\ vmiter' = VmIterator(r.value)
                /\ iter' = IF r.value = "ArrayValues"
                           THEN ArrayValuesIterator_new(arr) ELSE iter
                /\ generic' = IF r.value = "GenericIterator"
                              THEN GenericIterator(r.iterator, r.next_method)
                              ELSE generic
           ELSE UNCHANGED << vmiter, iter, generic >>
        /\ last' = [op |-> "from_value", key |-> LengthKey, desc |-> EmptyDesc,
                    ret |-> r.tag = "Ok", panic |-> FALSE,
                    out |-> [value |-> value, lookup |-> lookup,
                             behaviour |-> behaviour, outcome |-> r],
                    pre |-> arr]
        /\ UNCHANGED << arr, heap, forin, agent, mem, mem >>

\* step_value on the record from_value produced.
StepInvalid ==
    /\ vmiter.kind = "InvalidIterator"
    /\ vmiter.steps < MaxSteps
    /\ vmiter' = [vmiter EXCEPT !.steps = @ + 1]
    /\ last' = [op |-> "step_value", key |-> LengthKey, desc |-> EmptyDesc,
                ret |-> FALSE, panic |-> FALSE,
                out |-> [kind |-> vmiter.kind, outcome |-> step_value_invalid(vmiter)],
                pre |-> arr]
    /\ UNCHANGED << arr, nops, heap, iter, forin, generic, agent, mem >>

StepProduced(behaviour) ==
    /\ vmiter.kind = "GenericIterator"
    /\ vmiter.steps < MaxSteps
    /\ vmiter' = [vmiter EXCEPT !.steps = @ + 1]
    /\ generic' = [generic EXCEPT !.steps = @ + 1]
    /\ last' = [op |-> "step_value", key |-> LengthKey, desc |-> EmptyDesc,
                ret |-> TRUE, panic |-> FALSE,
                out |-> [kind |-> vmiter.kind,
                         outcome |-> step_value_generic(generic, behaviour)],
                pre |-> arr]
    /\ UNCHANGED << arr, nops, heap, iter, forin, agent, mem >>

NextFromValue ==
    \/ \E value \in IterableValues, lookup \in Lookups,
          behaviour \in MethodBehaviours : FromValue(value, lookup, behaviour)
    \/ StepInvalid
    \/ \E behaviour \in NextBehaviours : StepProduced(behaviour)

SpecFromValue == InitFromValue /\ [][NextFromValue]_vars

(***************************************************************************)
(* eval: a direct eval in the running code, whose strictness is that of    *)
(* the code, or a call of the eval function (an indirect eval).            *)
(***************************************************************************)
Let(v) == Binding(v, TRUE, TRUE)

Const(v) == Binding(v, FALSE, TRUE)

CallerScopes ==
    {GlobalScope(p, l, e) :
        p \in {NoBindings, Bound("y", Let("1")), Bound("x", Const("1"))},
        l \in {NoBindings, Bound("x", Let("1"))},
        e \in BOOLEAN}
    \cup {BlockScope(p, b) :
            p \in {NoBindings, Bound("y", Let("1"))},
            b \in {NoBindings, Bound("x", Let("1")), Bound("y", Const("1"))}}
    \cup {FunctionScope(f, b) :
            f \in {NoBindings, Bound("y", Let("1"))},
            b \in {NoBindings, Bound("x", Let("1"))}}
    \cup {WithScope(f, o) :
            f \in {NoBindings, Bound("x", Let("1"))},
            o \in {Bound("x", Let("1"))}}

Declarations ==
    {VariableDeclaration("x", None), VariableDeclaration("x", Some("2")),
     VariableDeclaration("y", Some("3")), FunctionDeclaration("x"),
     FunctionDeclaration("y")}

VarDeclarationLists ==
    {<< >>} \cup {<< d >> : d \in Declarations}
        \cup {<< d, e >> : d, e \in Declarations}
        \cup {<< FunctionDeclaration("x"), VariableDeclaration("x", Some("2")),
                 FunctionDeclaration("x") >>}

Script(var_declarations, lex_declarations, use_strict, throws) ==
    [var_declarations |-> var_declarations, lex_declarations |-> lex_declarations,
     use_strict |-> use_strict, throws |-> throws, is_empty |-> FALSE]

Scripts ==
    {Script(v, << >>, FALSE, FALSE) : v \in VarDeclarationLists}
    \cup {Script(v, l, s, t) :
            v \in {<< VariableDeclaration("y", Some("3")) >>,
                   << FunctionDeclaration("x"), FunctionDeclaration("x") >>},
            l \in {<< >>, << LexicalDeclaration("let", "z") >>,
                   << LexicalDeclaration("const", "z") >>},
            s \in BOOLEAN, t \in BOOLEAN}

SourceText(script, error, sloppy_only) ==
    [is_string |-> TRUE, value |-> "source", script |-> script, error |-> error,
     sloppy_only |-> sloppy_only]

EmptyScript == [Script(<< >>, << >>, FALSE, FALSE) EXCEPT !.is_empty = TRUE]

\* The values eval is called with: source texts, one that does not parse, one
\* that parses in sloppy mode only, one with no body; and values that are
\* not Strings.
EvalArguments ==
    {SourceText(script, FALSE, FALSE) : script \in Scripts}
    \cup {SourceText(EmptyScript, TRUE, FALSE), SourceText(EmptyScript, FALSE, FALSE),
          SourceText(Script(<< VariableDeclaration("y", Some("3")) >>, << >>,
                            FALSE, FALSE), FALSE, TRUE)}
    \cup {[is_string |-> FALSE, value |-> v, script |-> EmptyScript,
           error |-> FALSE, sloppy_only |-> FALSE] : v \in {"1", "undefined"}}

InitEval ==
    /\ arr = from_slice(SourceList(0))
    /\ heap = DefaultHeap
    /\ iter = ArrayValuesIterator_new(arr)
    /\ forin = ObjectPropertiesIterator_new("A")
    /\ generic = GenericIterator("it", "next")
    /\ vmiter = VmIterator("GenericIterator")
    /\ \E scope \in CallerScopes, strict \in BOOLEAN : agent = Agent(scope, strict)
    /\ mem = EmptyMemory
    /\ last = [op |-> "init", key |-> LengthKey, desc |-> EmptyDesc, ret |-> TRUE,
               panic |-> FALSE, out |-> None, pre |-> arr]
    /\ nops = 0

\* What is recorded of a call of perform_eval.
Evaluation(x, direct, strict_caller, hook_ok, r) ==
    [op |-> "perform_eval", key |-> LengthKey, desc |-> EmptyDesc,
     ret |-> r.result.tag = "Ok", panic |-> FALSE,
     out |-> [x |-> x, direct |-> direct, strict_caller |-> strict_caller,
              hook_ok |-> hook_ok, before |-> agent, result |-> r.result,
              events |-> r.events, context |-> r.context,
              declared |-> r.declared],
     pre |-> arr]

\* The eval instruction of the running code: a direct eval, whose caller is
\* strict when the running code is.
DirectEval(x, hook_ok) ==
    LET strict_caller == running_execution_context(agent).is_strict_mode
        r == perform_eval(agent, x, TRUE, strict_caller, hook_ok)
    IN  /\ nops = 0
        /\ nops' = nops + 1
        /\ agent' = r.agent
        /\ last' = Evaluation(x, TRUE, strict_caller, hook_ok, r)
        /\ UNCHANGED << arr, heap, iter, forin, generic, vmiter, mem, mem >>

\* GlobalObject::eval, the %eval% function: an indirect eval.
IndirectEval(x, hook_ok) ==
    LET r == perform_eval(agent, x, FALSE, FALSE, hook_ok)
    IN  /\ nops = 0
        /\ nops' = nops + 1
        /\ agent' = r.agent
        /\ last' = Evaluation(x, FALSE, FALSE, hook_ok, r)
        /\ UNCHANGED << arr, heap, iter, forin, generic, vmiter, mem, mem >>

NextEval ==
    \/ \E x \in EvalArguments, hook_ok \in BOOLEAN : DirectEval(x, hook_ok)
    \/ \E x \in EvalArguments, hook_ok \in BOOLEAN : IndirectEval(x, hook_ok)

SpecEval == InitEval /\ [][NextEval]_vars

(***************************************************************************)
(* Allocation, roots and mark-and-sweep cycles.                            *)
(***************************************************************************)
MaxRecords == MaxIndex + 1

HandlesOf(arena) ==
    {Handle(arena, n, mem.arenas[arena][n][1]) : n \in 1..Len(mem.arenas[arena])}

KeyLists ==
    {<< >>} \cup {<< h >> : h \in HandlesOf("strings")}
        \cup {<< h, g >> : h, g \in HandlesOf("strings")}

InitMemory ==
    /\ arr = from_slice(SourceList(0))
    /\ heap = DefaultHeap
    /\ iter = ArrayValuesIterator_new(arr)
    /\ forin = ObjectPropertiesIterator_new("A")
    /\ generic = GenericIterator("it", "next")
    /\ vmiter = VmIterator("GenericIterator")
    /\ agent = Agent(GlobalScope(NoBindings, NoBindings, TRUE), FALSE)
    /\ mem = EmptyMemory
    /\ last = [op |-> "init", key |-> LengthKey, desc |-> EmptyDesc, ret |-> TRUE,
               panic |-> FALSE, out |-> None, pre |-> arr]
    /\ nops = 0

MemoryStep(op) ==
    /\ last' = [last EXCEPT !.op = op]
    /\ UNCHANGED << arr, nops, heap, iter, forin, generic, vmiter, agent >>

\* A record is allocated; nothing refers to it yet.
Create(arena) ==
    /\ mem.allocated < MaxRecords
    /\ Len(mem.arenas[arena]) < MaxIndex
    /\ mem' = create(mem, arena)
    /\ MemoryStep("create")

\* An Array handle is kept as a root, or dropped.
RootArray ==
    /\ \E root \in {None} \cup {Some(h) : h \in HandlesOf("arrays")} :
           /\ root # mem.array
           /\ mem' = [mem EXCEPT !.array = root]
    /\ MemoryStep("root")

\* ObjectPropertiesIterator over an object or an Array, with keys visited
\* and keys remaining.
RootObjectProperties ==
    /\ mem.iterator = NoIterator
    /\ \E object \in HandlesOf("objects") \cup HandlesOf("arrays"),
          visited \in {k \in KeyLists : Len(k) < 2}, remaining \in KeyLists :
           mem' = [mem EXCEPT !.iterator =
                       [NoIterator EXCEPT !.kind = "ObjectProperties",
                                          !.object = Some(object),
                                          !.visited_keys = visited,
                                          !.remaining_keys = remaining]]
    /\ MemoryStep("root")

\* ArrayValuesIterator::new on an Array.
RootArrayValues ==
    /\ mem.iterator = NoIterator
    /\ \E array \in HandlesOf("arrays") :
           mem' = [mem EXCEPT !.iterator =
                       [NoIterator EXCEPT !.kind = "ArrayValues", !.array = Some(array)]]
    /\ MemoryStep("root")

\* A GenericIterator record of an iterator object and its next method.
RootGeneric ==
    /\ mem.iterator = NoIterator
    /\ \E iterator, next_method \in HandlesOf("objects") :
           mem' = [mem EXCEPT !.iterator =
                       [NoIterator EXCEPT !.kind = "GenericIterator",
                                          !.iterator = Some(iterator),
                                          !.next_method = Some(next_method)]]
    /\ MemoryStep("root")

\* The iterator is popped from the stack of the VM.
DropIterator ==
    /\ mem.iterator # NoIterator
    /\ mem' = [mem EXCEPT !.iterator = NoIterator]
    /\ MemoryStep("root")

\* A mark-and-sweep cycle.
Collect ==
    /\ mem.cycles < MaxOps
    /\ mem' = mark_and_sweep(mem)
    /\ MemoryStep("mark_and_sweep")

NextMemory ==
    \/ \E arena \in Arenas : Create(arena)
    \/ RootArray
    \/ RootObjectProperties
    \/ RootArrayValues
    \/ RootGeneric
    \/ DropIterator
    \/ Collect

SpecMemory == InitMemory /\ [][NextMemory]_vars

(***************************************************************************)
(* Properties of the Array exotic object.                                  *)
(***************************************************************************)
\* The last operation was [[DefineOwnProperty]] on an index of the range.
DefinedIndex == last.op = "define" /\ last.key \in IndexKeys

\* The slot at i holds the same value and descriptor as before the last
\* operation.
SlotUnchanged(i) ==
    /\ arr.values[i] = last.pre.values[i]
    /\ arr.descriptors[i] = last.pre.descriptors[i]

\* C1: when length_writable is false, [[DefineOwnProperty]] on an index of
\* the range that is >= length returns false and leaves the length, every
\* element slot and every element descriptor unchanged.
C1_DefineBeyondFrozenLengthRefused ==
    (DefinedIndex /\ ~last.pre.len_writable /\ last.key.index >= last.pre.len)
        => /\ last.ret = FALSE
           /\ ~last.panic
           /\ arr.len = last.pre.len
           /\ arr.values = last.pre.values
           /\ arr.descriptors = last.pre.descriptors

C1_Witness ==
    /\ DefinedIndex
    /\ ~last.pre.len_writable
    /\ last.key.index >= last.pre.len
    /\ last.desc.value /= None
    /\ last.ret = FALSE

\* C2: when length_writable is true, [[DefineOwnProperty]] on an index i of
\* the range with i >= length returns true, sets length to i + 1, leaves
\* every slot in [old length, i) a hole and every slot below the old length
\* unchanged.
C2_DefineBeyondLengthGrows ==
    (DefinedIndex /\ last.pre.len_writable /\ last.key.index >= last.pre.len)
        => /\ last.ret = TRUE
           /\ ~last.panic
           /\ arr.len = last.key.index + 1
           /\ \A j \in Slots :
                (last.pre.len <= j /\ j < last.key.index) => is_hole(arr, j)
           /\ \A j \in Slots : j < last.pre.len => SlotUnchanged(j)

C2_Witness ==
    /\ DefinedIndex
    /\ last.pre.len_writable
    /\ last.pre.len > 0
    /\ last.key.index > last.pre.len
    /\ last.ret = TRUE
    /\ arr.len = last.key.index + 1

\* C3: every element slot at an index >= length is a hole: it has no value
\* and no entry in the descriptor side table.
C3_SlotsBeyondLengthAreHoles ==
    \A i \in Slots : i >= arr.len => is_hole(arr, i)

\* A define of "length" has removed a slot that had a value and an entry in
\* the side table.
C3_Witness ==
    /\ last.op = "define"
    /\ last.key = LengthKey
    /\ arr.len < last.pre.len
    /\ \E i \in Slots :
         /\ i >= arr.len
         /\ last.pre.values[i] /= None
         /\ last.pre.descriptors[i] /= None
         /\ is_hole(arr, i)

\* The indices from n up to the old length whose property is not
\* configurable, before the last operation.
NonConfigurableFrom(n) ==
    { k \in Slots :
        /\ n <= k
        /\ k < last.pre.len
        /\ last.pre.descriptors[k] /= None
        /\ ~last.pre.descriptors[k][1].configurable }

SetMax(S) == CHOOSE x \in S : \A y \in S : y <= x

\* The last operation was a define of "length" that asks for a length below
\* the current one and that ArraySetLength carries out: the length is
\* writable and the descriptor asks for nothing "length" cannot have.
ShrunkLength ==
    /\ last.op = "define"
    /\ last.key = LengthKey
    /\ last.desc.value /= None
    /\ last.desc.value[1] < last.pre.len
    /\ last.pre.len_writable
    /\ last.desc.configurable /= Some(TRUE)
    /\ last.desc.enumerable /= Some(TRUE)
    /\ ~is_accessor_descriptor(last.desc)

\* C4: a define of "length" with a value n below the current length deletes
\* the indices from old length - 1 downward; if an index k >= n holds a
\* non-configurable property, the shrinking stops there: the define returns
\* false, the length is k + 1 and every property at an index <= k is
\* unchanged.
C4_ShrinkStopsAtNonConfigurable ==
    (ShrunkLength /\ NonConfigurableFrom(last.desc.value[1]) /= {})
        => LET k == SetMax(NonConfigurableFrom(last.desc.value[1]))
           IN  /\ last.ret = FALSE
               /\ arr.len = k + 1
               /\ \A j \in Slots : j <= k => SlotUnchanged(j)
               /\ \A j \in Slots : j > k => is_hole(arr, j)

\* [10, 20, 30, 40] with index 2 non-configurable and length := 1: false,
\* length 3, [10, 20, 30].
C4_Witness ==
    /\ ShrunkLength
    /\ last.pre.len = 4
    /\ last.desc.value = Some(1)
    /\ NonConfigurableFrom(1) = {2}
    /\ last.ret = FALSE
    /\ arr.len = 3
    /\ arr.values[0] = Some("10")
    /\ arr.values[1] = Some("20")
    /\ arr.values[2] = Some("30")
    /\ is_hole(arr, 3)

\* C5: [[GetOwnProperty]] of an index of the range that is >= length is
\* absent, in every reachable state.
C5_NoOwnPropertyBeyondLength ==
    \A i \in ARRAY_INDEX_RANGE :
        i >= arr.len => try_get_own_property(arr, IntKey(i)) = None

\* [[GetOwnProperty]] was called on an index that a define of "length" or a
\* sparse define left at or beyond the length of a non-empty array.
C5_Witness ==
    /\ last.op = "get_own_property"
    /\ last.key \in IndexKeys
    /\ last.key.index >= arr.len
    /\ arr.len > 0
    /\ last.out = None

\* C6: every element slot whose descriptor is an accessor descriptor has no
\* value in the value slice.
C6_AccessorSlotHasNoValue ==
    \A i \in Slots :
        (arr.descriptors[i] /= None /\ arr.descriptors[i][1].accessor)
            => arr.values[i] = None

\* A data property with a value has been redefined as an accessor property.
C6_Witness ==
    /\ DefinedIndex
    /\ last.pre.values[last.key.index] /= None
    /\ last.ret = TRUE
    /\ arr.descriptors[last.key.index] /= None
    /\ arr.descriptors[last.key.index][1].accessor
    /\ arr.values[last.key.index] = None

\* A descriptor {value: v, writable: true, enumerable: true,
\* configurable: true}.
DefaultDataDesc(d) ==
    /\ d.value /= None
    /\ d.writable = Some(TRUE)
    /\ d.enumerable = Some(TRUE)
    /\ d.configurable = Some(TRUE)
    /\ d.get = None
    /\ d.set = None

\* C7 (as stated): after define_own_property(A, i, {value: v, writable: true,
\* enumerable: true, configurable: true}) on any Array and any index of the
\* range, get_own_property(A, i) returns a descriptor equal to the input.
C7_RoundTripAlways ==
    (DefinedIndex /\ DefaultDataDesc(last.desc))
        => try_get_own_property(arr, last.key) = Some(last.desc)

\* C7 (amended): whenever that define returns true, get_own_property(A, i)
\* returns a descriptor equal to the input.
C7_RoundTripWhenAccepted ==
    (DefinedIndex /\ DefaultDataDesc(last.desc) /\ last.ret = TRUE)
        => try_get_own_property(arr, last.key) = Some(last.desc)

\* The define replaced a property that had another value or was an accessor.
C7_Witness ==
    /\ DefinedIndex
    /\ DefaultDataDesc(last.desc)
    /\ last.ret = TRUE
    /\ last.key.index < last.pre.len
    /\ last.pre.values[last.key.index] /= last.desc.value
    /\ try_get_own_property(arr, last.key) = Some(last.desc)

\* The keys of the slots below the length that are not holes, ascending.
RECURSIVE non_hole_keys(_, _)
non_hole_keys(a, from) ==
    IF from >= a.len THEN << >>
    ELSE (IF ~is_hole(a, from) THEN << IntKey(from) >> ELSE << >>)
         \o non_hole_keys(a, from + 1)

BackingKeysOf(a) ==
    IF a.object_index = None THEN << >>
    ELSE ordinary_own_property_keys(a.object_index[1])

\* Every slot of a below the length is a hole, a data property with a value
\* or an accessor property.
SlotsWellFormed(a) ==
    \A i \in Slots :
        (i < a.len /\ a.values[i] = None /\ a.descriptors[i] /= None)
            => a.descriptors[i][1].accessor

\* C8: [[OwnPropertyKeys]] returns the key of every slot that is not a hole
\* (accessor slots included) in ascending index order, followed by the own
\* keys of the backing object in its order.  Stated for the arrays whose
\* slots are holes, data properties with a value or accessor properties.
C8_OwnKeysListEveryNonHoleSlot ==
    (last.op = "own_property_keys" /\ SlotsWellFormed(last.pre))
        => last.out = non_hole_keys(last.pre, 0) \o BackingKeysOf(last.pre)

\* The array holds exactly one property, a data property with a value at its
\* last index, and has no backing object.
SingleElementAt(a, i) ==
    /\ a.len = i + 1
    /\ a.values[i] /= None
    /\ \A j \in Slots : j /= i => is_hole(a, j)
    /\ a.object_index = None

\* C9: [[OwnPropertyKeys]] lists "length" after the integer-index keys; for
\* an array whose only property is the element at index i the result is
\* exactly << i, "length" >>.
C9_OwnKeysListLength ==
    last.op = "own_property_keys"
        => /\ \E n \in 1..Len(last.out) :
                /\ last.out[n] = LengthKey
                /\ \A m \in 1..Len(last.out) :
                     last.out[m] \in IndexKeys => m < n
           /\ \A i \in ARRAY_INDEX_RANGE :
                SingleElementAt(last.pre, i)
                    => last.out = << IntKey(i), LengthKey >>

\* The last operation was [[Delete]] on an index below the length.
DeletedIndex ==
    /\ last.op = "delete"
    /\ last.key \in IndexKeys
    /\ last.key.index < last.pre.len

\* C10: [[Delete]] on an index i below the length returns false and leaves
\* the value, the descriptor and the length unchanged when the slot has a
\* non-configurable descriptor; otherwise it returns true, the slot becomes
\* a hole ([[GetOwnProperty]](i) is absent), and the length and every other
\* slot are unchanged.
C10_DeleteIndex ==
    DeletedIndex
        => LET i == last.key.index
           IN  /\ ~last.panic
               /\ arr.len = last.pre.len
               /\ \A j \in Slots : j /= i => SlotUnchanged(j)
               /\ IF /\ last.pre.descriptors[i] /= None
                     /\ ~last.pre.descriptors[i][1].configurable
                  THEN last.ret = FALSE /\ SlotUnchanged(i)
                  ELSE /\ last.ret = TRUE
                       /\ is_hole(arr, i)
                       /\ try_get_own_property(arr, last.key) = None

\* A delete was refused on a non-configurable property that has a value.
C10_Witness ==
    /\ DeletedIndex
    /\ last.pre.descriptors[last.key.index] /= None
    /\ ~last.pre.descriptors[last.key.index][1].configurable
    /\ last.pre.values[last.key.index] /= None
    /\ last.ret = FALSE
    /\ arr.values[last.key.index] = last.pre.values[last.key.index]

(***************************************************************************)
(* Properties of [[Get]].                                                  *)
(***************************************************************************)
\* What the prototype chain of the Array a answers for key: undefined when
\* the [[Prototype]] is null.
PrototypeChainResult(a, key, receiver) ==
    IF internal_prototype(a) = None THEN Ok("undefined")
    ELSE ordinary_internal_get(heap, heap[internal_prototype(a)[1]], key, receiver)

\* C11: [[Get]](P, Receiver) returns the current length for "length"; the
\* prototype chain's result for an index of the range that is >= length;
\* and for an index < length the slot's value when present, otherwise the
\* result of calling the slot's getter with Receiver as this when a getter
\* is present, otherwise the prototype chain's result.
C11_InternalGet ==
    last.op = "internal_get"
        => LET a == last.pre
               r == last.out.result
               receiver == last.out.receiver
               i == last.key.index
           IN  /\ last.key = LengthKey => r = Ok(NumberValue(a.len))
               /\ (last.key \in IndexKeys /\ i >= a.len)
                     => r = PrototypeChainResult(a, last.key, receiver)
               /\ (last.key \in IndexKeys /\ i < a.len)
                     => IF a.values[i] /= None THEN r = Ok(a.values[i][1])
                        ELSE IF a.descriptors[i] /= None
                                /\ a.descriptors[i][1].get /= None
                        THEN /\ r.calls = << [callee |-> a.descriptors[i][1].get[1],
                                              this |-> receiver] >>
                             /\ r = call_function(a.descriptors[i][1].get[1],
                                                  receiver)
                        ELSE r = PrototypeChainResult(a, last.key, receiver)

\* [[Get]] on a slot with the getter "h" and a receiver other than the
\* Array: the getter ran with the receiver as this and returned it.
C11_Witness ==
    /\ last.op = "internal_get"
    /\ last.key \in IndexKeys
    /\ last.key.index < last.pre.len
    /\ getter_function(last.pre, last.key.index) = Some("h")
    /\ last.out.receiver = "R"
    /\ last.out.result.value = "R"

\* C12: try_get calls no user function and changes no state; it returns
\* Break only when internal_get in the same state has to call a getter; and
\* when it returns Continue(v), internal_get in the same state returns v.
C12_TryGetAgreesWithInternalGet ==
    last.op = "try_get"
        => LET r == last.out.result
               full == internal_get(heap, last.pre, last.key, last.out.receiver)
           IN  /\ r.calls = << >>
               /\ arr = last.pre
               /\ r.tag \in {"Continue", "Break"}
               /\ r.tag = "Break" => full.calls /= << >>
               /\ r.tag = "Continue" => full = Ok(r.value)

\* try_get met a getter on the Array's own slot.
C12_Witness ==
    /\ last.op = "try_get"
    /\ last.key \in IndexKeys
    /\ last.key.index < last.pre.len
    /\ getter_function(last.pre, last.key.index) /= None
    /\ last.out.result.tag = "Break"

(***************************************************************************)
(* The partition of the properties between the element storage and the     *)
(* backing object.                                                         *)
(***************************************************************************)
\* The backing object holds no property whose key is an index of the range.
NoIndexInBackingObject ==
    arr.object_index /= None
        => \A n \in 1..Len(arr.object_index[1].props) :
              arr.object_index[1].props[n].key \notin IndexKeys

\* The last define left the element storage as it was and found or created
\* the backing object, where an accepted property is stored.
StoredInBackingObject ==
    /\ arr.len = last.pre.len
    /\ arr.values = last.pre.values
    /\ arr.descriptors = last.pre.descriptors
    /\ arr.object_index /= None
    /\ last.ret => PropIndex(arr.object_index[1], last.key) /= 0

\* C13 (as stated): every integer index of the range is stored only in the
\* element storage and never in the backing object; every other key -- any
\* string that is not an index, any integer outside the range -- is stored
\* only in the backing object, which the first such define creates.
C13_PartitionedByKey ==
    /\ NoIndexInBackingObject
    /\ (last.op = "define" /\ last.key \in IndexKeys)
          => arr.object_index = last.pre.object_index
    /\ (last.op = "define" /\ last.key \notin IndexKeys) => StoredInBackingObject

\* C13 (amended): the same for every other key except "length", which is
\* kept in the element vector: a define of "length" neither creates nor
\* changes the backing object.
C13_PartitionedByKeyExceptLength ==
    /\ NoIndexInBackingObject
    /\ (last.op = "define" /\ last.key \in IndexKeys \cup {LengthKey})
          => arr.object_index = last.pre.object_index
    /\ (last.op = "define" /\ last.key \notin IndexKeys \cup {LengthKey})
          => StoredInBackingObject

\* The first define of an integer key above the range created the backing
\* object and stored the property there.
C13_Witness ==
    /\ last.op = "define"
    /\ last.key = IntKey(MaxIndex + 1)
    /\ last.pre.object_index = None
    /\ last.pre.len > 0
    /\ last.ret = TRUE
    /\ arr.object_index /= None
    /\ PropIndex(arr.object_index[1], last.key) /= 0

\* C14: in every reachable state [[GetOwnProperty]]("length") is a data
\* descriptor whose value is the current length, whose writable equals
\* length_writable and whose enumerable and configurable are false.
C14_LengthDescriptor ==
    LET d == try_get_own_property(arr, LengthKey)
    IN  /\ d /= None
        /\ d[1].value = Some(arr.len)
        /\ d[1].writable = Some(arr.len_writable)
        /\ d[1].enumerable = Some(FALSE)
        /\ d[1].configurable = Some(FALSE)
        /\ d[1].get = None
        /\ d[1].set = None

\* [[GetOwnProperty]]("length") was called on a non-empty array whose
\* length is not writable.
C14_Witness ==
    /\ last.op = "get_own_property"
    /\ last.key = LengthKey
    /\ arr.len > 0
    /\ ~arr.len_writable
    /\ last.out /= None
    /\ last.out[1].value = Some(arr.len)
    /\ last.out[1].writable = Some(FALSE)

(***************************************************************************)
(* Properties of the ArrayValues iterator.                                 *)
(***************************************************************************)
\* The element of a at index i as [[Get]](a, i, a) reads it.
ElementOf(a, i) == internal_get(heap, a, IntKey(i), "A").value

\* The k-th result of an iteration over a: the elements in index order,
\* then None.
ExpectedResult(a, k) ==
    IF k <= a.len THEN StepSome(ElementOf(a, k - 1)) ELSE StepNone

\* The result of the last step.
LastResult == iter.log[Len(iter.log)]

\* C15: when the array was the same at every step of the iteration, the
\* steps have yielded A[0], A[1], ..., A[n-1] in that order, each once,
\* and None from then on.
C15_YieldsElementsInOrder ==
    iter.intact
        => \A k \in 1..Len(iter.log) : iter.log[k] = ExpectedResult(iter.origin, k)

\* An array of at least two elements was iterated to its end and stepped
\* once more.
C15_Witness ==
    /\ iter.intact
    /\ iter.origin.len >= 2
    /\ Len(iter.log) = iter.origin.len + 1
    /\ iter.log[1] = StepSome("10")
    /\ iter.log[2] = StepSome("20")
    /\ LastResult = StepNone

\* C16: a step returns None exactly when the index of the record is >= the
\* length the array has at that step; the index advances by one when a
\* value is yielded and stays when the step returns None.
C16_LengthReadAtEveryStep ==
    last.op = "step_value"
        => /\ (LastResult.tag = "None") <=> (last.out.index >= last.pre.len)
           /\ LastResult.tag = "None" => iter.index = last.out.index
           /\ LastResult.tag = "Some" => iter.index = last.out.index + 1

\* A step yielded an element that was appended after the iteration began,
\* at an index the array did not have at the first step.
C16_Witness ==
    /\ last.op = "step_value"
    /\ last.out.log /= << >>
    /\ \A k \in 1..Len(last.out.log) : last.out.log[k].tag = "Some"
    /\ last.out.index >= last.out.origin.len
    /\ LastResult = StepSome("99")

\* C17: a step at an index i below the current length yields what
\* [[Get]](A, i, A) returns in the state of the step.
C17_YieldsWhatGetReturns ==
    (last.op = "step_value" /\ last.out.index < last.pre.len)
        => /\ internal_get(heap, last.pre, last.key, "A").tag = "Ok"
           /\ LastResult = StepSome(internal_get(heap, last.pre, last.key, "A").value)

\* [10, 20] with index 0 redefined as an accessor whose getter returns 99
\* yields 99, 20.
C17_Witness ==
    /\ iter.intact
    /\ iter.origin.len = 2
    /\ getter_function(iter.origin, 0) = Some("f")
    /\ Len(iter.log) = 2
    /\ iter.log[1] = StepSome("99")
    /\ iter.log[2] = StepSome("20")

(***************************************************************************)
(* Properties of for-in.                                                   *)
(***************************************************************************)
\* C18: the keys yielded by repeated ObjectPropertiesIterator::next contain
\* no key twice, even when the same key is an own property of several
\* objects of the chain.
C18_NoKeyTwice ==
    \A m, n \in 1..Len(forin.log) :
        (m < n /\ forin.log[m] /= None) => forin.log[m] /= forin.log[n]

\* The iteration has come to its end over a chain in which "a" is an own
\* property of both prototypes, and has yielded "a".
C18_Witness ==
    /\ forin.log /= << >>
    /\ forin.log[Len(forin.log)] = None
    /\ forin.intact
    /\ ordinary_get_own_property(heap[array_prototype], StrKey("a")) /= None
    /\ ordinary_get_own_property(heap[object_prototype], StrKey("a")) /= None
    /\ Contains(forin.log, Some(StrKey("a")))

\* The objects of the chain that begins at object, nearest first.
RECURSIVE ChainFrom(_, _)
ChainFrom(objs, object) ==
    LET prototype == internal_get_prototype_of(objs.heap, objs.arr, object)
    IN  << object >> \o (IF prototype = None THEN << >>
                         ELSE ChainFrom(objs, prototype[1]))

\* The own property keys of an object: for the Array the key of every slot
\* that is not a hole, then the keys of the backing object.
OwnKeysOf(objs, object) ==
    IF object = "A" THEN non_hole_keys(objs.arr, 0) \o BackingKeysOf(objs.arr)
    ELSE ordinary_own_property_keys(objs.heap[object])

OwnPropertyOf(objs, object, key) ==
    internal_get_own_property(objs.heap, objs.arr, object, key)

\* The keys among keys that for-in yields while it visits chain[p].
RECURSIVE YieldedAt(_, _, _, _)
YieldedAt(objs, chain, p, keys) ==
    IF keys = << >> THEN << >>
    ELSE LET k == Head(keys)
             yielded ==
                 /\ k.kind /= "Symbol"
                 /\ OwnPropertyOf(objs, chain[p], k) /= None
                 /\ OwnPropertyOf(objs, chain[p], k)[1].enumerable = Some(TRUE)
                 /\ \A q \in 1..(p - 1) : OwnPropertyOf(objs, chain[q], k) = None
         IN  (IF yielded THEN << k >> ELSE << >>)
             \o YieldedAt(objs, chain, p, Tail(keys))

\* The keys for-in yields over the chain from chain[p] on: all keys of an
\* object before those of its prototype.
RECURSIVE ExpectedForIn(_, _, _)
ExpectedForIn(objs, chain, p) ==
    IF p > Len(chain) THEN << >>
    ELSE YieldedAt(objs, chain, p, OwnKeysOf(objs, chain[p]))
         \o ExpectedForIn(objs, chain, p + 1)

\* C19: for-in yields key k while it visits object O of the chain exactly
\* when k is a non-symbol own key of O, O's own descriptor for k is
\* enumerable, and no object nearer to the start of the chain has an own
\* property k; all keys of an object are processed before its prototype's.
\* Stated for the iterations during which no object of the chain changes.
C19_ForInYieldsExactly ==
    forin.intact
        => LET expected == ExpectedForIn(forin.origin,
                                         ChainFrom(forin.origin, forin.start), 1)
           IN  \A n \in 1..Len(forin.log) :
                   forin.log[n] = IF n <= Len(expected) THEN Some(expected[n])
                                  ELSE None

(***************************************************************************)
(* Properties of a step of a GenericIterator.                              *)
(***************************************************************************)
EventsOf(op, arg) ==
    {n \in 1..Len(last.out.outcome.events) :
        /\ last.out.outcome.events[n].op = op
        /\ last.out.outcome.events[n].arg = arg}

\* C20: a step of a GenericIterator calls next_method exactly once, with the
\* iterator as this.  A result that is not an object gives a TypeError with
\* neither "done" nor "value" read.  Of an object "done" is read before
\* "value"; when ToBoolean(done) is true the step returns None and "value" is
\* not read; "value" is read, and returned, only when it is false.
C20_GenericStep ==
    last.op = "generic_step" =>
        LET b == last.out.behaviour
            o == last.out.outcome
            calls == {n \in 1..Len(o.events) : o.events[n].op = "call"}
            dones == EventsOf("get", "done")
            values == EventsOf("get", "value")
            is_done == to_boolean(b.done.value)
        IN  /\ calls = {1}
            /\ o.events[1] = CallEvent(generic.next_method, generic.iterator)
            /\ (~b.throws /\ ~b.is_object) =>
                    /\ o.tag = "Throw" /\ o.value = "TypeError"
                    /\ dones = {} /\ values = {}
            /\ (~b.throws /\ b.is_object) =>
                    /\ dones = {2}
                    /\ values \subseteq {3}
                    /\ (~b.done.throws /\ is_done) =>
                            o.tag = "None" /\ values = {}
                    /\ values # {} <=> (~b.done.throws /\ ~is_done)
                    /\ (~b.done.throws /\ ~is_done /\ ~b.value.throws) =>
                            o.tag = "Some" /\ o.value = b.value.value
                    /\ o.tag = "Some" => values = {3}

\* A step whose result object has a truthy "done" that is not a boolean, and
\* a "value" whose getter would throw: the step returns None.
C20_Witness ==
    /\ last.op = "generic_step"
    /\ ~last.out.behaviour.throws /\ last.out.behaviour.is_object
    /\ last.out.behaviour.done = [throws |-> FALSE, value |-> "done"]
    /\ last.out.behaviour.value.throws
    /\ last.out.outcome.tag = "None"
    /\ generic.steps > 1

(***************************************************************************)
(* Properties of from_value and of the record it produces.                 *)
(***************************************************************************)
\* The method the lookup of @@iterator found, when it found a callable one.
MethodFound ==
    /\ ~last.out.lookup.throws
    /\ is_callable(last.out.lookup.value)

ArrayValuesCase ==
    /\ last.out.value = "A"
    /\ MethodFound
    /\ last.out.lookup.value = array_prototype_values

CallsOfMethod ==
    {n \in 1..Len(last.out.outcome.events) :
        last.out.outcome.events[n] = CallEvent(last.out.lookup.value, last.out.value)}

\* C21: when the @@iterator method returns an object whose next is not
\* callable, from_value completes normally with an InvalidIterator record;
\* every step_value on an InvalidIterator record throws TypeError, yields
\* neither a value nor None, and leaves the record an InvalidIterator.
C21_InvalidIteratorThrows ==
    /\ ( /\ last.op = "from_value"
         /\ MethodFound /\ ~ArrayValuesCase
         /\ ~last.out.behaviour.throws /\ last.out.behaviour.is_object
         /\ ~last.out.behaviour.next.throws
         /\ ~is_callable(last.out.behaviour.next.value) )
            => /\ last.out.outcome.tag = "Ok"
               /\ last.out.outcome.value = "InvalidIterator"
               /\ vmiter = VmIterator("InvalidIterator")
    /\ (last.op = "step_value" /\ last.out.kind = "InvalidIterator")
            => /\ last.out.outcome.tag = "Throw"
               /\ last.out.outcome.value = "TypeError"
               /\ vmiter.kind = "InvalidIterator"

\* The third step on an InvalidIterator record has thrown.
C21_Witness ==
    /\ last.op = "step_value"
    /\ last.out.kind = "InvalidIterator"
    /\ vmiter.steps = 3
    /\ last.out.outcome.tag = "Throw"

\* C22 (as stated): from_value throws TypeError when the @@iterator method is
\* undefined; it produces ArrayValues, the method not invoked, exactly when
\* the value is an Array and the method is the intrinsic
\* Array.prototype.values; in every other case it invokes the method and
\* produces a Generic or Invalid record.
C22_FromValueCases ==
    last.op = "from_value" =>
        LET o == last.out.outcome
            undefined_method == ~last.out.lookup.throws
                                    /\ last.out.lookup.value = "undefined"
        IN  /\ undefined_method => (o.tag = "Throw" /\ o.value = "TypeError")
            /\ (o.tag = "Ok" /\ o.value = "ArrayValues") <=> ArrayValuesCase
            /\ ArrayValuesCase => o.events = << >>
            /\ (~undefined_method /\ ~ArrayValuesCase) =>
                    /\ CallsOfMethod # {}
                    /\ o.tag = "Ok"
                    /\ o.value \in {"GenericIterator", "InvalidIterator"}

\* C22 (amended): as above, but in the other cases the method is invoked,
\* once and with the value as this, only when the lookup found a callable
\* method, and a record is produced only when the method returned an object
\* whose next could be read; from_value throws otherwise, and the record is
\* Generic when next is callable and Invalid when it is not.
C22_FromValueCasesOrThrow ==
    last.op = "from_value" =>
        LET o == last.out.outcome
            b == last.out.behaviour
            undefined_method == ~last.out.lookup.throws
                                    /\ last.out.lookup.value = "undefined"
        IN  /\ undefined_method => (o.tag = "Throw" /\ o.value = "TypeError")
            /\ (o.tag = "Ok" /\ o.value = "ArrayValues") <=> ArrayValuesCase
            /\ ArrayValuesCase => o.events = << >>
            /\ ~MethodFound => (o.tag = "Throw" /\ o.events = << >>)
            /\ (MethodFound /\ ~ArrayValuesCase) =>
                    /\ CallsOfMethod = {1}
                    /\ o.tag = "Ok" <=>
                            (~b.throws /\ b.is_object /\ ~b.next.throws)
                    /\ o.tag = "Ok" =>
                            o.value = IF is_callable(b.next.value)
                                      THEN "GenericIterator" ELSE "InvalidIterator"
                    /\ (~b.throws /\ ~b.is_object) => o.value = "TypeError"

\* The Array's @@iterator was replaced: the method is invoked and the record
\* is Generic.
C22_Witness ==
    /\ last.op = "from_value"
    /\ last.out.value = "A"
    /\ last.out.lookup = [throws |-> FALSE, value |-> "m"]
    /\ last.out.outcome.tag = "Ok"
    /\ last.out.outcome.value = "GenericIterator"
    /\ last.out.outcome.events[1] = CallEvent("m", "A")
    /\ generic = GenericIterator("it", "next")
    /\ nops = 2

(***************************************************************************)
(* Properties of perform_eval.                                             *)
(***************************************************************************)
Evaluating == last.op = "perform_eval"

Occurrences(event) ==
    {n \in 1..Len(last.out.events) : last.out.events[n] = event}

\* C23: perform_eval of a value that is not a String returns the value and
\* has no effect: the host hook is not called, nothing is parsed, no
\* environment is created and the execution context stack is unchanged.
C23_NonStringReturned ==
    (Evaluating /\ ~last.out.x.is_string) =>
        /\ last.out.result = Completion("Ok", last.out.x.value)
        /\ last.out.events = << >>
        /\ agent = last.out.before

\* A value that is not a String was returned though the host would have
\* refused to compile strings.
C23_Witness ==
    /\ Evaluating
    /\ ~last.out.x.is_string /\ last.out.x.value = "1"
    /\ ~last.out.hook_ok
    /\ last.ret

\* C24: the execution context stack at the return of perform_eval is the
\* stack at entry.  The early exits push nothing; a pushed eval context is
\* popped exactly once, last, whether the instantiation throws, the body
\* throws or the body completes; the body is compiled and run only when the
\* instantiation succeeded.
C24_StackRestored ==
    Evaluating =>
        /\ agent.stack = last.out.before.stack
        /\ Cardinality(Occurrences("push")) <= 1
        /\ Cardinality(Occurrences("pop")) = Cardinality(Occurrences("push"))
        /\ Occurrences("push") # {} => Occurrences("pop") = {Len(last.out.events)}
        /\ Occurrences("push") # {} <=>
                /\ last.out.x.is_string /\ last.out.hook_ok
                /\ parse_source(last.out.x, last.out.strict_caller) # None
                /\ ~last.out.x.script.is_empty
        /\ Occurrences("compile_eval_body") # {} <=> last.out.declared # None
        /\ Occurrences("execute") # {} <=> last.out.declared # None
        /\ (Occurrences("push") # {} /\ last.out.declared = None) =>
                last.out.result.tag = "Throw"

\* The eval context was pushed, the instantiation threw, and the context was
\* popped.
C24_Witness ==
    /\ Evaluating
    /\ last.out.context # None
    /\ last.out.declared = None
    /\ last.out.result = Completion("Throw", "SyntaxError")
    /\ Occurrences("pop") # {}
    /\ agent.stack = last.out.before.stack

\* The context that called eval, the eval context, and the script.
Caller == running_execution_context(last.out.before)

EvalContext == last.out.context[1]

Body == last.out.x.script

StrictEval == last.out.strict_caller \/ Body.use_strict

\* C25: the eval context's lexical environment is a new declarative
\* environment whose outer environment is the caller's lexical environment
\* (direct) or the global environment (indirect); its variable environment
\* is the caller's variable environment (direct, not strict), the global
\* environment (indirect, not strict), or the new lexical environment
\* (strict).
C25_EvalEnvironments ==
    (Evaluating /\ last.out.context # None) =>
        LET lex_env == EvalContext.lexical_environment
        IN  /\ lex_env = Len(last.out.before.envs) + 1
            /\ Len(agent.envs) = lex_env
            /\ agent.envs[lex_env].kind = "Declarative"
            /\ agent.envs[lex_env].outer =
                    IF last.out.direct THEN Caller.lexical_environment
                    ELSE global_env
            /\ EvalContext.is_strict_mode = StrictEval
            /\ EvalContext.variable_environment =
                    IF StrictEval THEN lex_env
                    ELSE IF last.out.direct THEN Caller.variable_environment
                    ELSE global_env

\* A direct eval in sloppy function code of a script with a "use strict"
\* directive: the variable environment is the new lexical environment.
C25_Witness ==
    /\ Evaluating
    /\ last.out.context # None
    /\ last.out.direct /\ ~last.out.strict_caller /\ Body.use_strict
    /\ Caller.variable_environment = 2
    /\ Caller.lexical_environment = 3
    /\ EvalContext.variable_environment = 4
    /\ agent.envs[4].outer = 3

\* The environments on the outer chain from env up to, and excluding, stop.
RECURSIVE OuterChain(_, _, _)
OuterChain(envs, env, stop) ==
    IF env = stop \/ env = 0 THEN {}
    ELSE {env} \cup OuterChain(envs, envs[env].outer, stop)

\* A var-declared name of the body is a lexical declaration of the global
\* variable environment, or is bound in a non-object environment on the
\* outer chain of the new lexical environment before the variable
\* environment (the new environment itself has no binding yet).
VarNameConflict ==
    LET envs == last.out.before.envs
        var_env == EvalContext.variable_environment
        outer == IF last.out.direct THEN Caller.lexical_environment ELSE global_env
    IN  \E d \in 1..Len(Body.var_declarations) :
            LET name == Body.var_declarations[d].name
            IN  \/ /\ envs[var_env].kind = "Global"
                   /\ envs[var_env].lexical[name] # None
                \/ \E env \in OuterChain(envs, outer, var_env) :
                       /\ envs[env].kind # "Object"
                       /\ envs[env].bindings[name] # None

\* C26: in an eval that is not strict, a conflict of a var-declared name
\* makes EvalDeclarationInstantiation throw SyntaxError before any binding
\* is created or changed in any environment.
C26_VarConflictThrows ==
    (Evaluating /\ last.out.context # None /\ ~StrictEval /\ VarNameConflict) =>
        /\ last.out.result = Completion("Throw", "SyntaxError")
        /\ last.out.declared = None
        /\ SubSeq(agent.envs, 1, Len(last.out.before.envs)) = last.out.before.envs
        /\ agent.envs[Len(agent.envs)].bindings = NoBindings

\* eval("var x = 2;") in a block with let x = 1: SyntaxError, and x is 1.
C26_Witness ==
    /\ Evaluating
    /\ last.out.direct /\ ~StrictEval
    /\ Body.var_declarations = << VariableDeclaration("x", Some("2")) >>
    /\ Len(last.out.before.envs) = 2
    /\ last.out.before.envs[2].bindings["x"] = Some(Let("1"))
    /\ last.out.result = Completion("Throw", "SyntaxError")
    /\ agent.envs[2].bindings["x"] = Some(Let("1"))

\* The binding of a name in the variable environment after the instantiation.
Declared(name) ==
    last.out.declared[1][EvalContext.variable_environment].bindings[name]

LastFunction(name) ==
    CHOOSE d \in 1..Len(Body.var_declarations) :
        /\ Body.var_declarations[d] = FunctionDeclaration(name)
        /\ \A e \in (d + 1)..Len(Body.var_declarations) :
               Body.var_declarations[e] # FunctionDeclaration(name)

FunctionNames ==
    {Body.var_declarations[d].name :
        d \in {e \in 1..Len(Body.var_declarations) :
                  Body.var_declarations[e].kind = "Function"}}

\* C27: a name that function declarations of the body declare is bound, by
\* the instantiation, to the function object of the last of them in source
\* order, also when the name is declared as a var; no name is chosen twice.
C27_LastFunctionWins ==
    (Evaluating /\ last.out.declared # None) =>
        /\ \A name \in FunctionNames :
               /\ Declared(name) # None
               /\ Declared(name)[1].value = instantiate_function_object(LastFunction(name))
               /\ Declared(name)[1].initialized
        /\ LET chosen == functions_to_initialize(Body.var_declarations,
                                                 Len(Body.var_declarations), << >>)
           IN  /\ Cardinality(NamesOf(Body.var_declarations, chosen)) = Len(chosen)
               /\ NamesOf(Body.var_declarations, chosen) = FunctionNames

\* function x, var x = 2, function x: x is bound to the third declaration.
C27_Witness ==
    /\ Evaluating
    /\ last.out.declared # None
    /\ Len(Body.var_declarations) = 3
    /\ Declared("x") # None
    /\ Declared("x")[1].value = "fn3"
    /\ EvalContext.variable_environment = 2

\* The binding of a name in the variable environment before the eval, if
\* the variable environment is not the new one.
Before(name) ==
    IF EvalContext.variable_environment > Len(last.out.before.envs) THEN None
    ELSE last.out.before.envs[EvalContext.variable_environment].bindings[name]

VariableNames ==
    {Body.var_declarations[d].name :
        d \in {e \in 1..Len(Body.var_declarations) :
                  Body.var_declarations[e].kind = "Variable"}} \ FunctionNames

\* C28: for a var-declared name that is not a function name, the
\* instantiation leaves a binding in the variable environment: the one that
\* was there, with its value, or else a new mutable binding initialised to
\* undefined (a property of the global object when the variable environment
\* is global).  An indirect sloppy eval of "var y = 3" at the top level
\* completes normally and leaves the global property y equal to 3.
C28_VarBindings ==
    /\ (Evaluating /\ last.out.declared # None) =>
            \A name \in VariableNames :
                /\ Declared(name) # None
                /\ Before(name) # None => Declared(name) = Before(name)
                /\ Before(name) = None =>
                        Declared(name) = Some(Binding("undefined", TRUE, TRUE))
    /\ ( /\ Evaluating /\ ~last.out.direct /\ last.out.hook_ok
         /\ last.out.x = SourceText(Script(<< VariableDeclaration("y", Some("3")) >>,
                                           << >>, FALSE, FALSE), FALSE, FALSE)
         /\ Len(last.out.before.envs) = 1
         /\ last.out.before.envs[global_env].extensible )
            => /\ last.out.result = Completion("Ok", "undefined")
               /\ agent.envs[global_env].bindings["y"] # None
               /\ agent.envs[global_env].bindings["y"][1].value = "3"

\* A direct sloppy eval of "var y = 3" in a function that has y = 1: the
\* instantiation leaves y at 1, and a global var x is created by another.
C28_Witness ==
    /\ Evaluating
    /\ last.out.declared # None
    /\ Body.var_declarations = << VariableDeclaration("y", Some("3")) >>
    /\ EvalContext.variable_environment = 2
    /\ Before("y") = Some(Let("1"))
    /\ Declared("y") = Some(Let("1"))
    /\ agent.envs[2].bindings["y"][1].value = "3"

(***************************************************************************)
(* Properties of the handles across mark-and-sweep cycles.                 *)
(***************************************************************************)
RootHandles == mark_values_array(mem.array) \cup mark_values_iterator(mem.iterator)

Resolves(h) ==
    /\ h.index \in 1..Len(mem.arenas[h.arena])
    /\ mem.arenas[h.arena][h.index] = Some(h.referent)

\* C29: every handle the roots hold (the Array handle; the object, the
\* visited keys and the remaining keys of an ObjectProperties iterator; the
\* array of an ArrayValues iterator; the iterator and the next method of a
\* Generic iterator) resolves to the record it was made for, also after
\* mark-and-sweep cycles that compacted the arenas.
C29_HandlesResolveAfterSweep == \A h \in RootHandles : Resolves(h)

\* A cycle moved records, and the roots hold an ObjectProperties iterator
\* with a remaining key that is not at the index it was made at.
C29_Witness ==
    /\ last.op = "mark_and_sweep"
    /\ mem.moved
    /\ mem.iterator.kind = "ObjectProperties"
    /\ mem.array # None
    /\ \E n \in 1..Len(mem.iterator.remaining_keys) :
           /\ mem.iterator.remaining_keys[n].index # mem.iterator.remaining_keys[n].referent
           /\ Resolves(mem.iterator.remaining_keys[n])

(***************************************************************************)
(* A non-configurable element under [[DefineOwnProperty]] and [[Delete]].  *)
(***************************************************************************)
\* The own property of the key of the last operation, before and after it.
PropertyBefore == try_get_own_property(last.pre, last.key)

PropertyAfter == try_get_own_property(arr, last.key)

OnNonConfigurableIndex ==
    /\ last.op \in {"define", "delete"}
    /\ last.key.kind = "Integer" /\ last.key.index \in ARRAY_INDEX_RANGE
    /\ PropertyBefore # None
    /\ PropertyBefore[1].configurable = Some(FALSE)

\* C30: a define or a delete on a non-configurable index leaves it an own
\* property that is non-configurable, with the same enumerable and the same
\* kind, and with the same value if it was a non-writable data property; a
\* define that returns false leaves the value and the descriptor of the slot
\* as they were.
C30_NonConfigurableIndexKept ==
    /\ OnNonConfigurableIndex =>
            /\ PropertyAfter # None
            /\ PropertyAfter[1].configurable = Some(FALSE)
            /\ PropertyAfter[1].enumerable = PropertyBefore[1].enumerable
            /\ is_accessor_descriptor(PropertyAfter[1])
                    = is_accessor_descriptor(PropertyBefore[1])
            /\ ( /\ is_data_descriptor(PropertyBefore[1])
                 /\ PropertyBefore[1].writable = Some(FALSE) )
                    => PropertyAfter[1].value = PropertyBefore[1].value
    /\ ( /\ last.op = "define" /\ ~last.ret
         /\ last.key.kind = "Integer" /\ last.key.index \in ARRAY_INDEX_RANGE )
            => /\ arr.values[last.key.index] = last.pre.values[last.key.index]
               /\ arr.descriptors[last.key.index] = last.pre.descriptors[last.key.index]

\* A non-configurable, non-writable data element was defined again with its
\* own value and accepted, after a define that was refused.
C30_Witness ==
    /\ OnNonConfigurableIndex
    /\ last.op = "define" /\ last.ret
    /\ is_data_descriptor(PropertyBefore[1])
    /\ PropertyBefore[1].writable = Some(FALSE)
    /\ last.desc.value = PropertyBefore[1].value
    /\ last.desc.value # None
    /\ PropertyAfter = PropertyBefore

(***************************************************************************)
(* The writability of "length" and the extensibility of the Array.         *)
(***************************************************************************)
\* C31: length_writable only ever changes from true to false: when the
\* length was not writable before an operation on the array (define, delete,
\* set-length, internal_set_extensible with either argument), it is not
\* writable after it.
C31_LengthWritableNeverRestored ==
    ~last.pre.len_writable => ~arr.len_writable

\* C32: internal_set_extensible(value) leaves the own property "length" as
\* it was: [[GetOwnProperty]]("length") reports the same value and the same
\* writable attribute before and after the call.
C32_SetExtensibleKeepsLength ==
    last.op = "set_extensible"
    => try_get_own_property(arr, LengthKey)
           = try_get_own_property(last.pre, LengthKey)

(***************************************************************************)
(* [[Get]] on an index the Array has an own property at.                   *)
(***************************************************************************)
\* What [[Get]] answers from the own property p alone: the value of a data
\* property, the result of calling the getter of an accessor property with
\* the receiver as this, and undefined for an accessor without a getter.
OwnPropertyResult(p, receiver) ==
    IF p.get /= None THEN call_function(p.get[1], receiver)
    ELSE Ok(unwrap_or(p.value, "undefined"))

\* C33: [[Get]] on an index below the length consults the prototype chain
\* only when the Array has no own property there: whenever
\* [[GetOwnProperty]](i) is present, also for an accessor property with a
\* setter and no getter, the result of [[Get]](i) is the one the own
\* property gives, and a property of the prototype is not returned.
C33_OwnPropertyShadowsPrototype ==
    (/\ last.op = "internal_get"
     /\ last.key \in IndexKeys
     /\ last.key.index < last.pre.len
     /\ try_get_own_property(last.pre, last.key) # None)
        => last.out.result
               = OwnPropertyResult(try_get_own_property(last.pre, last.key)[1],
                                   last.out.receiver)

(***************************************************************************)
(* Filling a hole below the length.                                        *)
(***************************************************************************)
\* [[Extensible]] of the Array: the flag of the backing object, and true
\* while there is none.
internal_extensible(a) ==
    IF get_backing_object(a) = None THEN TRUE ELSE a.object_index[1].extensible

\* C34: whether [[DefineOwnProperty]] may fill a hole at an index below the
\* length depends on the extensibility of the Array and not on the
\* writability of "length": on an extensible Array, also one whose length
\* was made non-writable, defining a data property on a hole at i < length
\* returns true and creates the property.
C34_HoleFilledWhenExtensible ==
    (/\ last.op = "define"
     /\ last.key \in IndexKeys
     /\ last.key.index < last.pre.len
     /\ is_hole(last.pre, last.key.index)
     /\ internal_extensible(last.pre)
     /\ ~is_accessor_descriptor(last.desc))
        => /\ last.ret
           /\ try_get_own_property(arr, last.key) # None
           /\ is_data_descriptor(try_get_own_property(arr, last.key)[1])

(***************************************************************************)
(* Exhaustion of the ArrayValues iterator.                                 *)
(***************************************************************************)
\* C35: exhaustion of an ArrayValues record is permanent: once a step on
\* the record has returned None, every later step on it returns None,
\* also when elements were appended to the array in between.
C35_ExhaustionIsPermanent ==
    \A j, k \in 1..Len(iter.log) :
        (j < k /\ iter.log[j].tag = "None") => iter.log[k].tag = "None"

(***************************************************************************)
(* The operations that only read the Array: each returns its result and    *)
(* the Array as the operation leaves it.  None of them writes to the       *)
(* record or to the element storage, and a key that belongs to the backing *)
(* object is looked up only when there is a backing object.                *)
(***************************************************************************)
\* OrdinaryHasProperty on the object o of the heap h, along its prototype
\* chain.
RECURSIVE ordinary_try_has_property(_, _, _)
ordinary_try_has_property(h, o, key) ==
    IF ordinary_get_own_property(o, key) /= None THEN TRUE
    ELSE IF o.prototype = None THEN FALSE
    ELSE ordinary_try_has_property(h, h[o.prototype[1]], key)

\* [[GetPrototypeOf]]
try_get_prototype_of(a) == internal_prototype(a)

\* [[HasProperty]]: an own property, or a property of the prototype chain.
try_has_property(h, a, key) ==
    IF try_get_own_property(a, key) /= None THEN TRUE
    ELSE IF try_get_prototype_of(a) /= None
    THEN ordinary_try_has_property(h, h[try_get_prototype_of(a)[1]], key)
    ELSE FALSE

Array_try_get_own_property(a, key) == Res(a, try_get_own_property(a, key))

Array_try_has_property(h, a, key) == Res(a, try_has_property(h, a, key))

\* try_get that creates the backing object to look a key up in it, the way
\* [[DefineOwnProperty]] does.
Array_try_get_creating_backing(h, a, key, receiver) ==
    IF key /= LengthKey /\ key \notin IndexKeys
    THEN Res([a EXCEPT !.object_index = Some(backing_or_create(a))],
             try_get(h, a, key, receiver))
    ELSE Res(a, try_get(h, a, key, receiver))

Array_try_get(h, a, key, receiver) == Res(a, try_get(h, a, key, receiver))

Array_try_own_property_keys(a) == Res(a, try_own_property_keys(a))

(***************************************************************************)
(* Reads of the Array between changes of it.                               *)
(***************************************************************************)
InitRead ==
    /\ \E n \in 0..2 : arr = from_slice(SourceList(n))
    /\ heap \in GetHeaps
    /\ iter = ArrayValuesIterator_new(arr)
    /\ forin = ObjectPropertiesIterator_new("A")
    /\ generic = GenericIterator("it", "next")
    /\ vmiter = VmIterator("GenericIterator")
    /\ agent = Agent(GlobalScope(NoBindings, NoBindings, TRUE), FALSE)
    /\ mem = EmptyMemory
    /\ last = [op |-> "init", key |-> LengthKey, desc |-> EmptyDesc, ret |-> TRUE,
               panic |-> FALSE, out |-> None, pre |-> arr]
    /\ nops = 0

ReadOwnProperty(key) ==
    /\ Running
    /\ arr' = Array_try_get_own_property(arr, key).arr
    /\ last' = Record("try_get_own_property", key, EmptyDesc,
                      Array_try_get_own_property(arr, key), None)
    /\ nops' = nops + 1
    /\ UNCHANGED others

ReadHasProperty(key) ==
    /\ Running
    /\ arr' = Array_try_has_property(heap, arr, key).arr
    /\ last' = Record("try_has_property", key, EmptyDesc,
                      Array_try_has_property(heap, arr, key), None)
    /\ nops' = nops + 1
    /\ UNCHANGED others

ReadGet(key, receiver) ==
    /\ Running
    /\ arr' = Array_try_get(heap, arr, key, receiver).arr
    /\ last' = [op |-> "try_get", key |-> key, desc |-> EmptyDesc, ret |-> TRUE,
                panic |-> FALSE,
                out |-> [receiver |-> receiver,
                         result |-> Array_try_get(heap, arr, key, receiver).ret],
                pre |-> arr]
    /\ nops' = nops + 1
    /\ UNCHANGED others

ReadOwnPropertyKeys ==
    /\ Running
    /\ arr' = Array_try_own_property_keys(arr).arr
    /\ last' = [op |-> "try_own_property_keys", key |-> LengthKey,
                desc |-> EmptyDesc, ret |-> TRUE, panic |-> FALSE,
                out |-> Array_try_own_property_keys(arr).ret, pre |-> arr]
    /\ nops' = nops + 1
    /\ UNCHANGED others

NextRead ==
    \/ \E i \in GetSlots, d \in GetDescs : DefineElement(i, d)
    \/ \E d \in LengthDescs : DefineLength(d)
    \/ \E key \in BackingKeys, d \in GetDescs : DefineBacking(key, d)
    \/ \E prototype \in Prototypes : SetPrototype(prototype)
    \/ \E key \in Keys : ReadOwnProperty(key)
    \/ \E key \in Keys : ReadHasProperty(key)
    \/ \E key \in Keys, receiver \in Receivers : ReadGet(key, receiver)
    \/ ReadOwnPropertyKeys

SpecRead == InitRead /\ [][NextRead]_vars

\* The operations that only read the Array.
ReadOperations ==
    {"try_get_own_property", "try_has_property", "try_get",
     "try_own_property_keys"}

\* C36: try_get_own_property, try_has_property, try_get and
\* try_own_property_keys leave the Array as it was: the length, whether it
\* is writable, every value and every descriptor of the element storage
\* and the prototype are the same afterwards, and no backing object is
\* created when there was none.
C36_ReadsChangeNothing ==
    last.op \in ReadOperations
        => /\ arr.len = last.pre.len
           /\ arr.len_writable = last.pre.len_writable
           /\ arr.values = last.pre.values
           /\ arr.descriptors = last.pre.descriptors
           /\ internal_prototype(arr) = internal_prototype(last.pre)
           /\ get_backing_object(last.pre) = None
                  => get_backing_object(arr) = None
           /\ arr = last.pre

\* try_get of the named key "a" on an Array that holds an accessor at index
\* 0 and has no backing object: there is none afterwards either.
C36_Witness ==
    /\ last.op = "try_get"
    /\ last.key = StrKey("a")
    /\ get_backing_object(last.pre) = None
    /\ last.pre.len > 0
    /\ getter_function(last.pre, 0) /= None
    /\ get_backing_object(arr) = None

(***************************************************************************)
(* Defining an index without a value.                                      *)
(***************************************************************************)
\* C37: a define of an index of the range that has no own property, with a
\* descriptor that has no value, get or set field, creates a data property
\* whose value is undefined, the same for a hole below the length and for
\* an index >= length: afterwards [[GetOwnProperty]] returns a data
\* descriptor with the value undefined, and [[OwnPropertyKeys]] lists the
\* index.
C37_DefineWithoutValueGivesUndefined ==
    (/\ last.op = "define"
     /\ last.key \in IndexKeys
     /\ last.desc.value = None
     /\ ~is_accessor_descriptor(last.desc)
     /\ try_get_own_property(last.pre, last.key) = None
     /\ last.ret)
        => /\ try_get_own_property(arr, last.key) # None
           /\ try_get_own_property(arr, last.key)[1].value = Some("undefined")
           /\ try_get_own_property(arr, last.key)[1].get = None
           /\ try_get_own_property(arr, last.key)[1].set = None
           /\ Contains(try_own_property_keys(arr), last.key)

(***************************************************************************)
(* The order in which the functions of an eval body are bound.             *)
(***************************************************************************)
\* The positions, in the var-scoped declarations of the body, of the
\* function declarations step 17 instantiates and binds, in the order in
\* which it takes them.
BindingOrder ==
    functions_to_initialize(Body.var_declarations, Len(Body.var_declarations), << >>)

\* C38: the instantiation binds the retained function declarations in the
\* source order of those declarations: for function a(){} function b(){}
\* the binding of a is created before the binding of b.
C38_FunctionsBoundInSourceOrder ==
    (Evaluating /\ last.out.declared # None) =>
        \A n, m \in 1..Len(BindingOrder) :
            n < m => BindingOrder[n] < BindingOrder[m]

(***************************************************************************)
(* The walk from lexEnv outward to varEnv (step 3.d).                      *)
(***************************************************************************)
\* The number of times the loop sets thisEnv to its outer environment before
\* thisEnv is varEnv; -1 when it comes to an environment that has no outer
\* environment, where get_outer_env(..).unwrap() panics.
RECURSIVE walk_to_var_env(_, _, _, _)
walk_to_var_env(envs, this_env, var_env, steps) ==
    IF this_env = var_env THEN steps
    ELSE IF get_outer_env(envs, this_env) = 0 \/ steps > Len(envs) THEN -1
    ELSE walk_to_var_env(envs, get_outer_env(envs, this_env), var_env, steps + 1)

WalkSteps ==
    walk_to_var_env(agent.envs, EvalContext.lexical_environment,
                    EvalContext.variable_environment, 0)

\* C39: for every eval context perform_eval builds for an eval that is not
\* strict, direct or indirect, the walk from lexEnv outward reaches varEnv
\* after finitely many steps (at most as many as there are environments)
\* and never goes past an environment that has no outer environment.
C39_WalkReachesVarEnv ==
    (Evaluating /\ last.out.context # None /\ ~StrictEval) =>
        /\ WalkSteps >= 1
        /\ WalkSteps < Len(agent.envs)

\* A direct sloppy eval in a block of a function: the walk goes from the new
\* environment to the block and from the block to the function environment.
C39_Witness ==
    /\ Evaluating
    /\ last.out.context # None
    /\ last.out.direct /\ ~StrictEval
    /\ Len(last.out.before.envs) = 3
    /\ last.out.before.envs[2].kind = "Function"
    /\ last.out.before.envs[3].kind = "Declarative"
    /\ EvalContext.lexical_environment = 4
    /\ EvalContext.variable_environment = 2
    /\ WalkSteps = 2

(***************************************************************************)
(* The bindings of a strict eval.                                          *)
(***************************************************************************)
\* The names the body declares: vars, functions and lexical declarations.
DeclaredNames ==
    script_var_declared_names(Body)
        \cup {Body.lex_declarations[d].name : d \in 1..Len(Body.lex_declarations)}

\* C40: in a strict eval (a strict caller, or a body with a use-strict
\* directive) the instantiation makes no conflict check, so it does not
\* throw, and every var, function and lexical binding it creates is in the
\* new environment of the eval: the environments that existed before, among
\* them the caller's variable environment, the caller's lexical
\* environment and the global environment, are as they were.
C40_StrictEvalBindsInNewEnvironment ==
    (Evaluating /\ last.out.context # None /\ StrictEval) =>
        /\ EvalContext.variable_environment = EvalContext.lexical_environment
        /\ EvalContext.lexical_environment = Len(last.out.before.envs) + 1
        /\ last.out.declared # None
        /\ SubSeq(last.out.declared[1], 1, Len(last.out.before.envs))
               = last.out.before.envs
        /\ \A name \in Names :
               has_binding(last.out.declared[1], EvalContext.lexical_environment, name)
                   <=> name \in DeclaredNames

\* A sloppy caller in a block that has let x = 1 evaluates a body with a
\* use-strict directive that declares function x twice and let z: no
\* SyntaxError, x is bound to a function in the new environment, and the
\* block's x is 1.
C40_Witness ==
    /\ Evaluating
    /\ last.out.context # None
    /\ last.out.direct
    /\ ~last.out.strict_caller /\ Body.use_strict
    /\ Len(last.out.before.envs) = 2
    /\ last.out.before.envs[2].bindings["x"] = Some(Let("1"))
    /\ Body.var_declarations = << FunctionDeclaration("x"), FunctionDeclaration("x") >>
    /\ Body.lex_declarations = << LexicalDeclaration("let", "z") >>
    /\ last.out.declared # None
    /\ last.out.declared[1][3].bindings["x"] # None
    /\ last.out.declared[1][3].bindings["x"][1].value = "fn2"
    /\ last.out.declared[1][3].bindings["z"] # None
    /\ agent.envs[2].bindings["x"] = Some(Let("1"))

====
